---- MODULE Spec2Model ----
(***************************************************************************)
(* Routing of generation requests over interchangeable backends with       *)
(* fallback (LLMFallbackManager, LLMBridge, EnhancedModelManager,          *)
(* APILLMManager) and coordination of a request over the three engines     *)
(* (EngineCoordinator).                                                    *)
(*                                                                         *)
(* Each subsystem has its own specification over its own variables; the    *)
(* variables of the other subsystems stay at their initial values.         *)
(*   SpecFM   LLMFallbackManager.generate_with_fallback over LLMBridge     *)
(*   SpecEMM  EnhancedModelManager: select, generate, health monitor       *)
(*   SpecEC   EngineCoordinator.execute_coordinated_task                   *)
(*   SpecLD   CPUOptimizedDeepSeekEnhanced and GGUFModelManager: loading   *)
(*   SpecMT   EnhancedModelManager: reported cost and model metrics        *)
(*   SpecAPI  APILLMManager: current model and fallback                    *)
(*   SpecCL   LLMFallbackManager._determine_fallback_reason                *)
(*   SpecHM   EnhancedModelManager: the life of the health monitor task    *)
(*   SpecPM   ParallelMindEngine: submitted tasks, processor, cancel_task  *)
(*   SpecRQ   request counters of both managers under interleaved calls    *)
(***************************************************************************)
EXTENDS Naturals, Integers, Sequences, FiniteSets, TLC

VARIABLES
  fm_cfg,      \* LLMFallbackManager: config, local_models, api_fallbacks, llm_bridge.providers
  fm_loaded,   \* CPUOptimizedDeepSeek.is_loaded
  fm_calls,    \* one frame per generate_with_fallback call
  fm_events    \* LLMFallbackManager.fallback_events

VARIABLES
  emm_env,     \* host of EnhancedModelManager: RAM, GPU, torch, GGUF integration, API keys
  emm_status,  \* ModelConfig.status of each model
  emm_err,     \* ModelConfig.error_count
  emm_succ,    \* ModelConfig.success_count
  emm_loaded,  \* gguf_manager.is_model_loaded("deepseek-r1")
  emm_mon,     \* health_check_task and the position of _health_monitor in its loop
  emm_calls    \* one frame per generate_response call

VARIABLES
  ec_engines,  \* EngineCoordinator.engines: the engine types registered
  ec_call,     \* the frame of execute_coordinated_task
  ec_metrics   \* coordination_metrics['total_coordinated_tasks']

VARIABLES
  ld_model_type, \* CPUOptimizedDeepSeekEnhanced.model_type
  ld_is_loaded,  \* CPUOptimizedDeepSeekEnhanced.is_loaded
  ld_calls,      \* one frame per caller of load / generate_code
  ld_gguf        \* GGUFModelManager: models, model_stats["loaded"], metrics["models_loaded"]

VARIABLES
  mt_loaded,   \* gguf_manager.is_model_loaded("deepseek-r1")
  mt_models,   \* ModelConfig.success_count, average_response_time, error_count
  mt_metrics,  \* metrics: total_requests, successful_requests, failed_requests, total_cost
  mt_served,   \* per model: how many responses with success it served, the sum of their times
  mt_last      \* the response the last call returned

VARIABLES
  api_cfg,     \* APILLMManager.models (the model types registered) and fallback_enabled
  api_current, \* APILLMManager.current_model
  api_calls    \* one frame per generate_response call

VARIABLES
  cl_error     \* an error message given to _determine_fallback_reason, and the reason returned

VARIABLES
  hm_env,      \* host of EnhancedModelManager
  hm_task,     \* health_check_task: 0 for None, or the task it holds
  hm_tasks,    \* the _health_monitor tasks: where each one is suspended
  hm_status,   \* ModelConfig.status of each model
  hm_ops       \* start_health_monitoring, stop_health_monitoring and shutdown calls so far

VARIABLES
  pm_processor, \* ParallelMindEngine: whether _processor_task holds a task
  pm_tasks,     \* the ReasoningTask of every submit_task so far; its position is its id
  pm_active,    \* active_tasks, as the set of its ids
  pm_completed, \* completed_tasks: the status recorded for each id, "none" if absent
  pm_queue,     \* task_queue
  pm_executing, \* the ids whose _execute_task is in flight
  pm_stats,     \* stats
  pm_cancelled, \* the ids cancel_task has returned True for
  pm_callbacks  \* the ids whose callback has been invoked

VARIABLES
  rq_emm,      \* EnhancedModelManager: host, ModelConfig.status, whether the GGUF model is loaded
  rq_api,      \* APILLMManager: models, fallback_enabled, current_model
  rq_metrics,  \* metrics of each manager: total_requests, successful_requests, failed_requests
  rq_calls     \* the generate_response calls, each where it is suspended

fm_vars == <<fm_cfg, fm_loaded, fm_calls, fm_events>>

emm_vars == <<emm_env, emm_status, emm_err, emm_succ, emm_loaded, emm_mon, emm_calls>>

ec_vars == <<ec_engines, ec_call, ec_metrics>>

ld_vars == <<ld_model_type, ld_is_loaded, ld_calls, ld_gguf>>

mt_vars == <<mt_loaded, mt_models, mt_metrics, mt_served, mt_last>>

api_vars == <<api_cfg, api_current, api_calls>>

cl_vars == <<cl_error>>

hm_vars == <<hm_env, hm_task, hm_tasks, hm_status, hm_ops>>

pm_vars == <<pm_processor, pm_tasks, pm_active, pm_completed, pm_queue,
             pm_executing, pm_stats, pm_cancelled, pm_callbacks>>

rq_vars == <<rq_emm, rq_api, rq_metrics, rq_calls>>

vars == <<fm_cfg, fm_loaded, fm_calls, fm_events,
          emm_env, emm_status, emm_err, emm_succ, emm_loaded, emm_mon, emm_calls,
          ec_engines, ec_call, ec_metrics,
          ld_model_type, ld_is_loaded, ld_calls, ld_gguf,
          mt_loaded, mt_models, mt_metrics, mt_served, mt_last,
          api_cfg, api_current, api_calls,
          cl_error,
          hm_env, hm_task, hm_tasks, hm_status, hm_ops,
          pm_processor, pm_tasks, pm_active, pm_completed, pm_queue,
          pm_executing, pm_stats, pm_cancelled, pm_callbacks,
          rq_emm, rq_api, rq_metrics, rq_calls>>

\* What the actions of one subsystem leave alone.
fm_others == <<emm_vars, ec_vars, ld_vars, mt_vars, api_vars, cl_vars, hm_vars, pm_vars, rq_vars>>

emm_others == <<fm_vars, ec_vars, ld_vars, mt_vars, api_vars, cl_vars, hm_vars, pm_vars, rq_vars>>

ec_others == <<fm_vars, emm_vars, ld_vars, mt_vars, api_vars, cl_vars, hm_vars, pm_vars, rq_vars>>

ld_others == <<fm_vars, emm_vars, ec_vars, mt_vars, api_vars, cl_vars, hm_vars, pm_vars, rq_vars>>

mt_others == <<fm_vars, emm_vars, ec_vars, ld_vars, api_vars, cl_vars, hm_vars, pm_vars, rq_vars>>

api_others == <<fm_vars, emm_vars, ec_vars, ld_vars, mt_vars, cl_vars, hm_vars, pm_vars, rq_vars>>

cl_others == <<fm_vars, emm_vars, ec_vars, ld_vars, mt_vars, api_vars, hm_vars, pm_vars, rq_vars>>

hm_others == <<fm_vars, emm_vars, ec_vars, ld_vars, mt_vars, api_vars, cl_vars, pm_vars, rq_vars>>

pm_others == <<fm_vars, emm_vars, ec_vars, ld_vars, mt_vars, api_vars, cl_vars, hm_vars, rq_vars>>

rq_others == <<fm_vars, emm_vars, ec_vars, ld_vars, mt_vars, api_vars, cl_vars, hm_vars, pm_vars>>

(***************************************************************************)
(* Helpers on sequences.                                                   *)
(***************************************************************************)
Range(s) == {s[i] : i \in 1..Len(s)}

InSeq(x, s) == \E i \in 1..Len(s) : s[i] = x

\* [x for x in chain if not (x in seen or seen.add(x))]
RECURSIVE DedupFrom(_, _)
DedupFrom(s, seen) ==
  IF s = <<>> THEN <<>>
  ELSE IF Head(s) \in seen THEN DedupFrom(Tail(s), seen)
       ELSE <<Head(s)>> \o DedupFrom(Tail(s), seen \cup {Head(s)})

Dedup(s) == DedupFrom(s, {})

NoDup(s) == \A i, j \in 1..Len(s) : i # j => s[i] # s[j]

(***************************************************************************)
(* LLMFallbackManager                                                      *)
(***************************************************************************)
NoModel == "None"
CpuModel == "deepseek-r1"

\* Number of concurrent generate_with_fallback calls explored.
FMMaxCalls == 1

FMCalls == 1..FMMaxCalls

\* FallbackReason
FallbackReason == {"api_error", "timeout", "rate_limit", "content_policy",
                   "low_resources", "manual_override", "cost_limit",
                   "content_based", "system_error"}

\* An error message is represented by the set of the keywords of
\* _determine_fallback_reason that occur in its lower-cased text.
TimeoutMsg == {"time", "out"}

\* Messages a backend may raise with (load()/generate_code() of the CPU model).
BackendErrMsgs == { {}, {"rate", "limit"}, {"time", "exceed", "memory"} }

\* A classifier that recognises only "time ... exceed" as a timeout.
determine_fallback_reason_exceed_only(msg) ==
  IF "time" \in msg /\ "exceed" \in msg THEN "timeout"
  ELSE IF "rate" \in msg /\ "limit" \in msg THEN "rate_limit"
  ELSE "api_error"

\* A classifier that looks for the rate limit before the timeout.
determine_fallback_reason_rate_first(msg) ==
  IF "rate" \in msg /\ "limit" \in msg THEN "rate_limit"
  ELSE IF "time" \in msg /\ ("out" \in msg \/ "exceed" \in msg) THEN "timeout"
  ELSE IF msg \cap {"content", "policy", "moderation"} # {} THEN "content_policy"
  ELSE IF msg \cap {"resource", "memory", "capacity"} # {} THEN "low_resources"
  ELSE IF msg \cap {"cost", "billing", "quota"} # {} THEN "cost_limit"
  ELSE "api_error"

_determine_fallback_reason(msg) ==
  IF "time" \in msg /\ ("out" \in msg \/ "exceed" \in msg) THEN "timeout"
  ELSE IF "rate" \in msg /\ "limit" \in msg THEN "rate_limit"
  ELSE IF msg \cap {"content", "policy", "moderation"} # {} THEN "content_policy"
  ELSE IF msg \cap {"resource", "memory", "capacity"} # {} THEN "low_resources"
  ELSE IF msg \cap {"cost", "billing", "quota"} # {} THEN "cost_limit"
  ELSE "api_error"

\* LLMBridge.generate_response: never raises.  behaviour is what the provider
\* object does when called: "text" (returns a non-empty string), "empty"
\* (returns a falsy value), "raise" (raises).
LLMBridge_generate_response(providers, model, behaviour) ==
  LET known == InSeq(model, providers)
      used  == IF known THEN model ELSE IF providers # <<>> THEN providers[1] ELSE NoModel
  IN  IF used = NoModel
        THEN [src |-> "no_providers_text", by |-> NoModel]
      ELSE IF behaviour = "text"  THEN [src |-> "backend", by |-> used]
      ELSE IF behaviour = "empty" THEN [src |-> "placeholder_text", by |-> used]
      ELSE [src |-> "error_text", by |-> used]

\* _is_model_available
_is_model_available(cfg, m) ==
  InSeq(m, cfg.local_models) \/ InSeq(m, cfg.providers) \/ m \in cfg.mm_ok

RECURSIVE FirstAvailable(_, _)
FirstAvailable(cfg, prefs) ==
  IF prefs = <<>> THEN NoModel
  ELSE IF _is_model_available(cfg, Head(prefs)) THEN Head(prefs)
       ELSE FirstAvailable(cfg, Tail(prefs))

\* select_optimal_model: content-based rules in order, then the low-memory
\* rule, else the requested model.  matches[i] says whether rule i's pattern
\* matches the message; lowmem is _check_low_memory_mode().
RECURSIVE ContentRoute(_, _, _, _)
ContentRoute(cfg, rules, matches, i) ==
  IF i > Len(rules) THEN NoModel
  ELSE IF matches[i] /\ FirstAvailable(cfg, rules[i]) # NoModel
         THEN FirstAvailable(cfg, rules[i])
       ELSE ContentRoute(cfg, rules, matches, i + 1)

select_optimal_model(cfg, model, matches, lowmem) ==
  IF ~cfg.enabled THEN model
  ELSE LET c == ContentRoute(cfg, cfg.content_rules, matches, 1)
           r == IF lowmem THEN FirstAvailable(cfg, cfg.lowmem_prefs) ELSE NoModel
       IN  IF c # NoModel THEN c ELSE IF r # NoModel THEN r ELSE model

\* A chain that listed the local models before the API models.
get_fallback_chain_local_first(cfg, original_model) ==
  LET apis == (IF cfg.primary # NoModel THEN <<cfg.primary>> ELSE <<>>) \o cfg.secondary
  IN  Dedup(SelectSeq(cfg.local_models, LAMBDA m : m # original_model)
            \o SelectSeq(apis, LAMBDA m : m # original_model) \o <<CpuModel>>)

\* get_fallback_chain
get_fallback_chain(cfg, original_model) ==
  LET apis == (IF cfg.primary # NoModel THEN <<cfg.primary>> ELSE <<>>) \o cfg.secondary
      chain == IF InSeq(original_model, cfg.local_models)
                 THEN apis \o SelectSeq(cfg.local_models, LAMBDA m : m # original_model)
                 ELSE SelectSeq(apis, LAMBDA m : m # original_model) \o cfg.local_models
  IN  Dedup(chain \o <<CpuModel>>)

NoContent == [src |-> "none", by |-> NoModel]

\* _try_generate_with_model: the set of ways one attempt can end.  An element
\* is [ok, content, msg, timed_out, loaded]: the returned text, or the raised
\* message and whether asyncio.wait_for timed out, and is_loaded of the CPU
\* model afterwards.
_try_generate_with_model(cfg, loaded, model) ==
  IF InSeq(model, cfg.local_models)
    THEN {[ok |-> TRUE, content |-> [src |-> "local_stub", by |-> model],
           msg |-> {}, timed_out |-> FALSE, loaded |-> loaded]}
  ELSE IF model = CpuModel /\ cfg.cpu_optimized
    THEN \* load() raises: the error escapes as it is
         (IF loaded THEN {} ELSE
            {[ok |-> FALSE, content |-> NoContent,
              msg |-> m, timed_out |-> FALSE, loaded |-> FALSE] : m \in BackendErrMsgs})
         \cup
         \* generate_code returns
         {[ok |-> TRUE, content |-> [src |-> "backend", by |-> CpuModel],
           msg |-> {}, timed_out |-> FALSE, loaded |-> TRUE]}
         \cup
         \* generate_code raises
         {[ok |-> FALSE, content |-> NoContent,
           msg |-> m, timed_out |-> FALSE, loaded |-> TRUE] : m \in BackendErrMsgs}
         \cup
         \* asyncio.wait_for times out
         {[ok |-> FALSE, content |-> NoContent,
           msg |-> TimeoutMsg, timed_out |-> TRUE, loaded |-> TRUE]}
  ELSE {[ok |-> TRUE, content |-> LLMBridge_generate_response(cfg.providers, model, b),
         msg |-> {}, timed_out |-> FALSE, loaded |-> loaded] : b \in {"text", "empty", "raise"}}
       \cup
       {[ok |-> FALSE, content |-> NoContent,
         msg |-> TimeoutMsg, timed_out |-> TRUE, loaded |-> loaded]}

\* Model names a request may carry, and the configurations explored.
FMModelNames == {"local-a", "gpt-4o-mini", "gpt-4o", CpuModel}

FMConfigs ==
  { [enabled |-> en, cpu_optimized |-> TRUE, policy |-> pol,
     local_models |-> lm, primary |-> pr, secondary |-> sec,
     providers |-> pv, content_rules |-> cr, lowmem_prefs |-> <<>>, mm_ok |-> {}] :
      en \in BOOLEAN, pol \in {"degrade", "propagate"},
      lm \in {<<>>, <<"local-a">>},
      pr \in {NoModel, "gpt-4o-mini"},
      sec \in {<<"gpt-4o">>},
      pv \in {<<>>, <<"gpt-4o-mini", "gpt-4o">>},
      cr \in {<<>>, << <<"gpt-4o">> >>} }

FMIdleFrame ==
  [pc |-> "idle", requested |-> NoModel, model |-> NoModel, chain |-> <<>>, idx |-> 0,
   reason |-> "none", tried |-> <<>>, result |-> [how |-> "none"]]

\* The state of the manager as constructed and initialised with cfg.
FMState0(cfg) ==
  [cfg |-> cfg, loaded |-> FALSE, calls |-> [c \in FMCalls |-> FMIdleFrame], events |-> <<>>]

\* The record of one attempt, kept per call: the model tried and how it ended.
Attempt(m, o) == [m |-> m, ok |-> o.ok, msg |-> o.msg, timed_out |-> o.timed_out]

FMReturn(content, model, original, fb_used, fb_reason, degraded) ==
  [how |-> "returned", content |-> content, model |-> model, original_model |-> original,
   fallback_used |-> fb_used, fallback_reason |-> fb_reason, degraded |-> degraded,
   error |-> {}]

FMRaise(msg) ==
  [how |-> "raised", content |-> [src |-> "none", by |-> NoModel], model |-> NoModel,
   original_model |-> NoModel, fallback_used |-> FALSE, fallback_reason |-> "none",
   degraded |-> FALSE, error |-> msg]

\* An event that records every fallback as failed.
FallbackEvent_always_failed(original, fallback, reason, success) ==
  [original_model |-> original, fallback_model |-> fallback, reason |-> reason,
   success |-> FALSE]

FallbackEvent(original, fallback, reason, success) ==
  [original_model |-> original, fallback_model |-> fallback, reason |-> reason,
   success |-> success]

\* A terminal policy that degrades whatever the configuration says.
TerminalResult_always_degrade(policy, original, primary_msg) ==
  [how |-> "returned", content |-> [src |-> "degraded_notice", by |-> NoModel],
   model |-> "degraded", original_model |-> original, fallback_used |-> TRUE,
   fallback_reason |-> "none", degraded |-> TRUE, error |-> {}]

\* persistent_failure_strategy: what generate_with_fallback does once the
\* primary and every fallback candidate have failed.
TerminalResult(policy, original, primary_msg) ==
  IF policy = "degrade"
    THEN FMReturn([src |-> "degraded_notice", by |-> NoModel], "degraded", original,
                  TRUE, "none", TRUE)
    ELSE FMRaise(primary_msg)

\* generate_with_fallback, up to the first attempt: the pass-through when the
\* fallback system is disabled, else routing and the fallback chain.
FMStart(c, model, matches, lowmem) ==
  /\ fm_calls[c].pc = "idle"
  /\ LET m == select_optimal_model(fm_cfg, model, matches, lowmem)
     IN  fm_calls' = [fm_calls EXCEPT ![c] =
           IF ~fm_cfg.enabled
             THEN [@ EXCEPT !.pc = "passthrough", !.requested = model, !.model = model]
             ELSE [@ EXCEPT !.pc = "primary", !.requested = model, !.model = m,
                            !.chain = get_fallback_chain(fm_cfg, m)]]
  /\ UNCHANGED <<fm_cfg, fm_loaded, fm_events, fm_others>>

\* The disabled path: llm_bridge.generate_response answers, with no timeout.
FMPassthrough(c, b) ==
  /\ fm_calls[c].pc = "passthrough"
  /\ fm_calls' = [fm_calls EXCEPT ![c] = [@ EXCEPT
        !.pc = "done",
        !.tried = Append(@, [m |-> fm_calls[c].model, ok |-> TRUE, msg |-> {},
                              timed_out |-> FALSE]),
        !.result = FMReturn(LLMBridge_generate_response(fm_cfg.providers, fm_calls[c].model, b),
                            fm_calls[c].model, NoModel, FALSE, "none", FALSE)]]
  /\ UNCHANGED <<fm_cfg, fm_loaded, fm_events, fm_others>>

\* The attempt on the original model: return its response, or create the
\* FallbackEvent (its reason) and enter the loop over the chain.
FMPrimary(c, o) ==
  /\ fm_calls[c].pc = "primary"
  /\ o \in _try_generate_with_model(fm_cfg, fm_loaded, fm_calls[c].model)
  /\ fm_loaded' = o.loaded
  /\ fm_calls' = [fm_calls EXCEPT ![c] =
       IF o.ok
         THEN [@ EXCEPT !.pc = "done", !.tried = Append(@, Attempt(fm_calls[c].model, o)),
                        !.result = FMReturn(o.content, fm_calls[c].model, NoModel,
                                            FALSE, "none", FALSE)]
         ELSE [@ EXCEPT !.pc = "fallback", !.tried = Append(@, Attempt(fm_calls[c].model, o)),
                        !.idx = 1, !.reason = _determine_fallback_reason(o.msg),
                        !.result = [how |-> "primary_failed", error |-> o.msg]]]
  /\ UNCHANGED <<fm_cfg, fm_events, fm_others>>

\* One iteration of the loop over the fallback chain; after the last
\* candidate has failed, the failed event is recorded and the terminal
\* policy applied.
FMFallback(c, o) ==
  LET f   == fm_calls[c]
      cand == f.chain[f.idx]
  IN
  /\ f.pc = "fallback"
  /\ f.idx <= Len(f.chain)
  /\ o \in _try_generate_with_model(fm_cfg, fm_loaded, cand)
  /\ fm_loaded' = o.loaded
  /\ IF o.ok
       THEN /\ fm_events' = Append(fm_events, FallbackEvent(f.model, cand, f.reason, TRUE))
            /\ fm_calls' = [fm_calls EXCEPT ![c] = [@ EXCEPT
                 !.pc = "done", !.tried = Append(@, Attempt(cand, o)),
                 !.result = FMReturn(o.content, cand, f.model, TRUE, f.reason, FALSE)]]
       ELSE IF f.idx < Len(f.chain)
         THEN /\ fm_events' = fm_events
              /\ fm_calls' = [fm_calls EXCEPT ![c] = [@ EXCEPT
                   !.idx = @ + 1, !.tried = Append(@, Attempt(cand, o))]]
         ELSE /\ fm_events' = Append(fm_events, FallbackEvent(f.model, cand, f.reason, FALSE))
              /\ fm_calls' = [fm_calls EXCEPT ![c] = [@ EXCEPT
                   !.pc = "done", !.idx = @ + 1, !.tried = Append(@, Attempt(cand, o)),
                   !.result = TerminalResult(fm_cfg.policy, f.model, f.result.error)]]
  /\ UNCHANGED <<fm_cfg, fm_others>>

FMOutcomes ==
  UNION {_try_generate_with_model(cfg, l, m) :
           cfg \in FMConfigs, l \in BOOLEAN, m \in FMModelNames}

FMNext ==
  \/ \E c \in FMCalls, model \in FMModelNames, matches \in {<<FALSE>>, <<TRUE>>} :
       FMStart(c, model, matches, FALSE)
  \/ \E c \in FMCalls, b \in {"text", "empty", "raise"} : FMPassthrough(c, b)
  \/ \E c \in FMCalls, o \in FMOutcomes : FMPrimary(c, o)
  \/ \E c \in FMCalls, o \in FMOutcomes : FMFallback(c, o)

(***************************************************************************)
(* EnhancedModelManager                                                    *)
(***************************************************************************)
\* _initialize_models: the four configured models, in dict order.
EMMOrder == <<"deepseek-r1", "llama", "openai-gpt4", "anthropic-claude">>

EMMModels == Range(EMMOrder)

priority(m) ==
  CASE m = "deepseek-r1" -> 1 [] m = "llama" -> 2
    [] m = "openai-gpt4" -> 3 [] m = "anthropic-claude" -> 4

\* ModelType LOCAL_OPENSOURCE / LOCAL_COMMERCIAL
IsLocal(m) == m \in {"deepseek-r1", "llama"}

\* cost_per_token, in 1/1000 USD per 1000 tokens (0.03 and 0.015 USD)
cost_per_token(m) ==
  CASE m = "openai-gpt4" -> 30 [] m = "anthropic-claude" -> 15 [] OTHER -> 0

\* memory_requirement in MB (0: none)
memory_requirement(m) ==
  CASE m = "deepseek-r1" -> 8192 [] m = "llama" -> 16384 [] OTHER -> 0

gpu_requirement(m) == m = "llama"

gguf_enabled(m) == m = "deepseek-r1"

\* Hosts explored: available RAM in MB, GPU, torch importable, GGUF integration
\* usable with the deepseek-r1 configuration present, API keys configured.
EMMEnvs ==
  { [ram_mb |-> 4096,  has_gpu |-> FALSE, torch |-> TRUE,  gguf |-> TRUE,  api_keys |-> TRUE],
    [ram_mb |-> 32768, has_gpu |-> TRUE,  torch |-> TRUE,  gguf |-> TRUE,  api_keys |-> TRUE],
    [ram_mb |-> 32768, has_gpu |-> FALSE, torch |-> FALSE, gguf |-> FALSE, api_keys |-> TRUE],
    [ram_mb |-> 32768, has_gpu |-> FALSE, torch |-> TRUE,  gguf |-> FALSE, api_keys |-> FALSE] }

\* Total number of _check_model_health runs explored.
EMMMaxChecks == 4

\* Number of generate_response calls explored.
EMMMaxCalls == 1

EMMCalls == 1..EMMMaxCalls

\* GenerationRequest; cost_limit in 1/1000 USD, 0 for None (both are falsy).
EMMRequest(p, fl, fa, cl) ==
  [model_preference |-> p, force_local |-> fl, fallback_allowed |-> fa,
   cost_limit |-> cl, max_tokens |-> 1000]

\* The requests explored: every combination of the flags for "auto"; a named
\* registered model without constraints and against both constraints; a
\* name that is not registered.
EMMRequests ==
  { EMMRequest("auto", fl, fa, cl) : fl \in BOOLEAN, fa \in BOOLEAN, cl \in {0, 20} }
  \cup { EMMRequest("openai-gpt4", FALSE, fa, 0) : fa \in BOOLEAN }
  \cup { EMMRequest("openai-gpt4", TRUE, TRUE, 20),
          EMMRequest("no-such-model", FALSE, TRUE, 0) }

\* _select_model honouring the requested model only when it passes the
\* filters.
select_model_constrained_preference(status, request) ==
  LET available_models == {m \in EMMModels : status[m] = "available"}
      local_models == {m \in available_models : IsLocal(m)}
      a1 == IF request.force_local /\ local_models # {}
              THEN local_models ELSE available_models
      cost_filtered ==
        {m \in a1 : cost_per_token(m) * request.max_tokens <= request.cost_limit * 1000}
      a2 == IF request.cost_limit # 0 /\ cost_filtered # {} THEN cost_filtered ELSE a1
  IN  IF request.model_preference \in a2 THEN request.model_preference
      ELSE IF a2 = {} THEN NoModel
      ELSE CHOOSE m \in a2 : \A n \in a2 : priority(m) <= priority(n)

\* _select_model without the status test on the requested model.
select_model_trusting_preference(status, request) ==
  IF request.model_preference # "auto" /\ request.model_preference \in EMMModels
    THEN request.model_preference
    ELSE LET a == {m \in EMMModels : status[m] = "available"}
         IN  IF a = {} THEN NoModel
             ELSE CHOOSE m \in a : \A n \in a : priority(m) <= priority(n)

\* _select_model sorting by priority in reverse.
select_model_reverse_sort(status, request) ==
  LET a == {m \in EMMModels : status[m] = "available"}
  IN  IF a = {} THEN NoModel
      ELSE CHOOSE m \in a : \A n \in a : priority(m) >= priority(n)

\* _select_model
_select_model(status, request) ==
  IF /\ request.model_preference # "auto"
     /\ request.model_preference \in EMMModels
     /\ status[request.model_preference] = "available"
    THEN request.model_preference
    ELSE
      LET available_models == {m \in EMMModels : status[m] = "available"}
          local_models == {m \in available_models : IsLocal(m)}
          a1 == IF request.force_local /\ local_models # {}
                  THEN local_models ELSE available_models
          cost_filtered ==
            {m \in a1 : cost_per_token(m) * request.max_tokens <= request.cost_limit * 1000}
          a2 == IF request.cost_limit # 0 /\ cost_filtered # {} THEN cost_filtered ELSE a1
      IN  IF a2 = {} THEN NoModel
          ELSE CHOOSE m \in a2 : \A n \in a2 : priority(m) <= priority(n)

\* _generate_with_model: which generator serves the model
GeneratorOf(m, env, loaded) ==
  IF gguf_enabled(m) /\ env.gguf /\ loaded THEN "gguf"
  ELSE IF IsLocal(m) THEN "local"
  ELSE "cloud"

\* How a generator can end: "ok" (a response with success), "failed_response"
\* (_generate_gguf returns a response with success=False), "raise".
GenOutcomes(via) ==
  CASE via = "gguf"  -> {"ok", "failed_response"}
    [] via = "local" -> {"ok"}
    [] via = "cloud" -> {"ok", "raise"}

\* _check_gguf_model_health / _check_local_model_health /
\* _check_cloud_model_health: how one check of m can end on this host.
\* "available" and "unavailable" are the status the check sets;
\* "probe_error" is the request to health_check_url raising, which the check
\* catches itself; "raise" is an exception that leaves the check.
CheckOutcomes(m, env, loaded) ==
  IF gguf_enabled(m) /\ env.gguf
    THEN {IF loaded THEN "available" ELSE "unavailable"}
  ELSE IF IsLocal(m)
    THEN {"unavailable", "raise"}
         \cup (IF /\ ~(memory_requirement(m) # 0 /\ env.ram_mb < memory_requirement(m))
                  /\ (~gpu_requirement(m) \/ ~env.torch \/ env.has_gpu)
                 THEN {"available", "probe_error"} ELSE {})
  ELSE IF ~env.api_keys THEN {"unavailable"}
  ELSE {"available", "unavailable", "probe_error"}

\* The status a check that ended with outcome o leaves: ERROR from the
\* handler of _check_model_health, UNAVAILABLE from the handlers of the
\* checks themselves.
check_status(o) ==
  CASE o = "raise" -> "error" [] o = "probe_error" -> "unavailable" [] OTHER -> o

EMMIdleFrame ==
  [pc |-> "idle", request |-> [model_preference |-> "auto"], depth |-> 0,
   selected |-> NoModel, via |-> "none", sels |-> <<>>, tried |-> <<>>,
   result |-> [how |-> "none"]]

\* The state of the manager as constructed on host env.
EMMState0(env) ==
  [env |-> env,
   status |-> [m \in EMMModels |->
                 IF m = "deepseek-r1" /\ env.gguf THEN "available" ELSE "unavailable"],
   err |-> [m \in EMMModels |-> 0],
   succ |-> [m \in EMMModels |-> 0],
   loaded |-> FALSE,
   mon |-> [task |-> "none", pos |-> 1, checks |-> 0],
   calls |-> [c \in EMMCalls |-> EMMIdleFrame]]

GenerationResponse(model_used, success, error_message, fallback_used) ==
  [how |-> "returned", model_used |-> model_used, success |-> success,
   error_message |-> error_message, fallback_used |-> fallback_used]

\* A fallback request that may fall back again.
fallback_request_allowing_fallback(request) ==
  [model_preference |-> "auto", force_local |-> FALSE, fallback_allowed |-> TRUE,
   cost_limit |-> 0, max_tokens |-> request.max_tokens]

\* The fallback request built by generate_response
fallback_request(request) ==
  [model_preference |-> "auto", force_local |-> FALSE, fallback_allowed |-> FALSE,
   cost_limit |-> 0, max_tokens |-> request.max_tokens]

\* generate_response up to the await of _generate_with_model; calls are
\* numbered in the order they start
EMMStart(c, request) ==
  LET sel == _select_model(emm_status, request)
  IN
  /\ emm_calls[c].pc = "idle"
  /\ \A d \in EMMCalls : d < c => emm_calls[d].pc # "idle"
  /\ emm_calls' = [emm_calls EXCEPT ![c] =
       IF sel = NoModel
         THEN [@ EXCEPT !.pc = "done", !.request = request,
                        !.sels = Append(@, [request |-> request, result |-> sel]),
                        !.result = GenerationResponse("none", FALSE, "No available models", FALSE)]
         ELSE [@ EXCEPT !.pc = "generating", !.request = request, !.selected = sel,
                        !.via = GeneratorOf(sel, emm_env, emm_loaded),
                        !.sels = Append(@, [request |-> request, result |-> sel])]]
  /\ UNCHANGED <<emm_env, emm_status, emm_err, emm_succ, emm_loaded, emm_mon, emm_others>>

\* _generate_with_model returns: the metrics update and the return
EMMGenerated(c, o) ==
  LET f == emm_calls[c]
  IN
  /\ f.pc = "generating"
  /\ o \in GenOutcomes(f.via) \ {"raise"}
  /\ emm_succ' = [emm_succ EXCEPT ![f.selected] = @ + 1]
  /\ emm_calls' = [emm_calls EXCEPT ![c] = [@ EXCEPT
       !.pc = "done",
       !.tried = Append(@, [m |-> f.selected, ok |-> o = "ok"]),
       !.result = GenerationResponse(f.selected, o = "ok",
                    IF o = "ok" THEN "none" ELSE "gguf error", f.depth = 1)]]
  /\ UNCHANGED <<emm_env, emm_status, emm_err, emm_loaded, emm_mon, emm_others>>

\* A handler that fell back whatever the request says.
fallback_taken_whatever_requested(request, selected) == priority(selected) < 4

\* generate_response, except branch: "if request.fallback_allowed and
\* selected_model.priority < 4"
fallback_taken(request, selected) ==
  request.fallback_allowed /\ priority(selected) < 4

\* A handler that also marked the failed model as in error.
request_failure_writes_marking_error(status, err, m) ==
  [status |-> [status EXCEPT ![m] = "error"], err |-> [err EXCEPT ![m] = @ + 1]]

\* What the except branch of generate_response writes to the failed model's
\* configuration: error_count, and nothing else
request_failure_writes(status, err, m) ==
  [status |-> status, err |-> [err EXCEPT ![m] = @ + 1]]

\* _generate_with_model raises: error_count, then the fallback request (its
\* selection runs in the same step, up to its own await) or the failure
EMMFailed(c) ==
  LET f   == emm_calls[c]
      w   == request_failure_writes(emm_status, emm_err, f.selected)
      fr  == fallback_request(f.request)
      sel == _select_model(w.status, fr)
  IN
  /\ f.pc = "generating"
  /\ "raise" \in GenOutcomes(f.via)
  /\ emm_status' = w.status
  /\ emm_err' = w.err
  /\ emm_calls' = [emm_calls EXCEPT ![c] =
       IF fallback_taken(f.request, f.selected)
         THEN IF sel = NoModel
                THEN [@ EXCEPT !.pc = "done", !.depth = @ + 1,
                       !.tried = Append(@, [m |-> f.selected, ok |-> FALSE]),
                       !.sels = Append(@, [request |-> fr, result |-> sel]),
                       !.result = GenerationResponse("none", FALSE, "No available models", TRUE)]
                ELSE [@ EXCEPT !.depth = @ + 1, !.request = fr, !.selected = sel,
                       !.via = GeneratorOf(sel, emm_env, emm_loaded),
                       !.tried = Append(@, [m |-> f.selected, ok |-> FALSE]),
                       !.sels = Append(@, [request |-> fr, result |-> sel])]
         ELSE [@ EXCEPT !.pc = "done",
                !.tried = Append(@, [m |-> f.selected, ok |-> FALSE]),
                !.result = GenerationResponse(f.selected, FALSE, "error", f.depth = 1)]]
  /\ UNCHANGED <<emm_env, emm_succ, emm_loaded, emm_mon, emm_others>>

\* start_health_monitoring
EMMStartMonitor ==
  /\ emm_mon.task = "none"
  /\ emm_mon' = [emm_mon EXCEPT !.task = "running", !.pos = 1]
  /\ UNCHANGED <<emm_env, emm_status, emm_err, emm_succ, emm_loaded, emm_calls, emm_others>>

\* stop_health_monitoring
EMMStopMonitor ==
  /\ emm_mon.task # "none"
  /\ emm_mon' = [emm_mon EXCEPT !.task = "none"]
  /\ UNCHANGED <<emm_env, emm_status, emm_err, emm_succ, emm_loaded, emm_calls, emm_others>>

CheckResults == {"available", "unavailable", "probe_error", "raise"}

\* One _check_model_health of _health_monitor's loop
EMMHealthCheck(o) ==
  LET m == EMMOrder[emm_mon.pos]
  IN
  /\ emm_mon.task = "running"
  /\ emm_mon.checks < EMMMaxChecks
  /\ o \in CheckOutcomes(m, emm_env, emm_loaded)
  /\ emm_status' = [emm_status EXCEPT ![m] = check_status(o)]
  /\ emm_err' = [emm_err EXCEPT ![m] = IF o = "raise" THEN @ + 1 ELSE @]
  /\ emm_mon' = [emm_mon EXCEPT !.pos = IF @ = Len(EMMOrder) THEN 1 ELSE @ + 1,
                                !.checks = @ + 1]
  /\ UNCHANGED <<emm_env, emm_succ, emm_loaded, emm_calls, emm_others>>

\* initialize_gguf_models: load_model("deepseek-r1") succeeds or not
EMMInitializeGguf(success) ==
  /\ emm_env.gguf
  /\ ~emm_loaded
  /\ emm_loaded' = success
  /\ emm_status' = [emm_status EXCEPT !["deepseek-r1"] =
                      IF success THEN "available" ELSE "error"]
  /\ UNCHANGED <<emm_env, emm_err, emm_succ, emm_mon, emm_calls, emm_others>>

\* shutdown: cancels the monitor task and unloads every GGUF model
EMMShutdown ==
  /\ emm_mon.task = "running" \/ emm_loaded
  /\ emm_mon' = [emm_mon EXCEPT !.task = IF @ = "running" THEN "cancelled" ELSE @]
  /\ emm_loaded' = FALSE
  /\ UNCHANGED <<emm_env, emm_status, emm_err, emm_succ, emm_calls, emm_others>>

\* The manager while it serves: stop_health_monitoring and shutdown end the
\* monitoring and are no steps of it.
EMMNext ==
  \/ \E c \in EMMCalls, r \in EMMRequests : EMMStart(c, r)
  \/ \E c \in EMMCalls, o \in {"ok", "failed_response"} : EMMGenerated(c, o)
  \/ \E c \in EMMCalls : EMMFailed(c)
  \/ EMMStartMonitor
  \/ \E o \in CheckResults : EMMHealthCheck(o)
  \/ \E b \in BOOLEAN : EMMInitializeGguf(b)

(***************************************************************************)
(* EngineCoordinator                                                       *)
(***************************************************************************)
\* EngineType
EngineTypes == {"perfect_recall", "parallel_mind", "creative"}

\* Longest required_engines list explored.
ECMaxRequired == 2

\* request.input_data as given, before any engine has changed it.
InputData == [base |-> "input", keys |-> {}]

\* How one _execute_single_engine can end: a result without output_data, a
\* result with output_data, an exception.
EngineOutcomes == {"ok", "ok_output_data", "raise"}

SeqsUpTo(S, n) == UNION {[1..k -> S] : k \in 0..n}

\* CoordinatedRequest: the strategy, required_engines, whether input_data is
\* a dict, and what _analyze_task_for_optimal_engines reads: the keyword
\* classes found in description and task_type, and whether complexity is
\* ENTERPRISE.
CoordinatedRequest(st, r, d, m, p, c, e) ==
  [strategy |-> st, required_engines |-> r, is_dict |-> d,
   memory |-> m, parallel |-> p, creativity |-> c, enterprise |-> e]

\* The requests explored.  The fields only adaptive reads vary only there;
\* input_data that is no dict, and a strategy that is no key of
\* coordination_strategies (it runs adaptive), come with the memory and the
\* creativity keywords found, with and without the parallelism keywords.
ECRequests ==
  { CoordinatedRequest(st, r, TRUE, FALSE, FALSE, FALSE, FALSE) :
      st \in {"sequential", "parallel"}, r \in SeqsUpTo(EngineTypes, ECMaxRequired) }
  \cup
  { CoordinatedRequest("adaptive", r, TRUE, m, p, c, e) :
      r \in SeqsUpTo(EngineTypes, ECMaxRequired),
      m \in BOOLEAN, p \in BOOLEAN, c \in BOOLEAN, e \in BOOLEAN }
  \cup
  { CoordinatedRequest(st, r, FALSE, TRUE, p, TRUE, e) :
      st \in {"adaptive", "unknown"}, r \in SeqsUpTo(EngineTypes, ECMaxRequired),
      p \in BOOLEAN, e \in BOOLEAN }

\* _analyze_task_for_optimal_engines sorting the priorities by ascending score.
analyze_task_ascending(request) ==
  [engine_priorities |->
     (IF request.creativity THEN <<"creative">> ELSE <<>>)
     \o (IF request.parallel THEN <<"parallel_mind">> ELSE <<>>)
     \o (IF request.memory THEN <<"perfect_recall">> ELSE <<>>),
   requires_parallel |-> request.parallel,
   requires_creativity |-> request.creativity,
   high_complexity |-> request.enterprise]

\* _analyze_task_for_optimal_engines: engine_priorities, sorted by score
\* (0.9, 0.8, 0.7), and whether complexity_score > 0.7
_analyze_task_for_optimal_engines(request) ==
  [engine_priorities |->
     (IF request.memory THEN <<"perfect_recall">> ELSE <<>>)
     \o (IF request.parallel THEN <<"parallel_mind">> ELSE <<>>)
     \o (IF request.creativity THEN <<"creative">> ELSE <<>>),
   requires_parallel |-> request.parallel,
   requires_creativity |-> request.creativity,
   high_complexity |-> request.enterprise]

PlanStep(engine, mode, enhance_next) ==
  [engine |-> engine, mode |-> mode, enhance_next |-> enhance_next]

\* _create_optimal_execution_plan: plan["steps"]
_create_optimal_execution_plan(analysis) ==
  LET pr == analysis.engine_priorities
      step(e, mode, enh) == IF InSeq(e, pr) THEN <<PlanStep(e, mode, enh)>> ELSE <<>>
  IN  IF analysis.high_complexity
        THEN step("perfect_recall", "sequential", TRUE)
             \o step("parallel_mind", "sequential", TRUE)
             \o step("creative", "sequential", FALSE)
      ELSE IF analysis.requires_parallel /\ analysis.requires_creativity
        THEN step("parallel_mind", "parallel", FALSE)
             \o step("creative", "parallel", FALSE)
      ELSE [i \in 1..Len(pr) |-> PlanStep(pr[i], "sequential", TRUE)]

\* The key _enhance_data_for_next_engine adds for the engine
EnhancementKey(engine) ==
  CASE engine = "perfect_recall" -> "retrieved_context"
    [] engine = "parallel_mind"  -> "parallel_results"
    [] engine = "creative"       -> "creative_insights"

\* _enhance_data_for_next_engine returning the data as it got it.
enhance_data_unchanged(current_data, engine, is_dict) == current_data

\* _enhance_data_for_next_engine, for a successful response
_enhance_data_for_next_engine(current_data, engine, is_dict) ==
  IF is_dict THEN [current_data EXCEPT !.keys = @ \cup {EnhancementKey(engine)}]
  ELSE current_data

\* EngineResponse; data_in records the data the engine was called with
EngineResponse(engine, o, data) ==
  [engine_type |-> engine, success |-> o # "raise",
   result |-> IF o = "raise" THEN "None" ELSE o, data_in |-> data]

\* _execute_engine_with_timing: an engine that is not registered raises
\* KeyError inside the try
_execute_engine_with_timing(engines, engine, o, data) ==
  EngineResponse(engine, IF engine \in engines THEN o ELSE "raise", data)

\* _execute_sequential with the failure resetting current_data.
sequential_next_data_lost_on_failure(current_data, engine, o) ==
  IF o = "ok_output_data" THEN [base |-> engine, keys |-> {}]
  ELSE IF o = "raise" THEN [base |-> "None", keys |-> {}]
  ELSE current_data

\* _execute_sequential: current_data after an engine has run
sequential_next_data(current_data, engine, o) ==
  IF o = "ok_output_data" THEN [base |-> engine, keys |-> {}] ELSE current_data

\* _execute_parallel returning only the responses of the tasks that succeeded.
parallel_responses_without_failures(tasks) ==
  SelectSeq([i \in 1..Len(tasks) |-> tasks[i].response], LAMBDA r : r.success)

\* _execute_parallel: the responses, in the order the tasks were created
parallel_responses(tasks) == [i \in 1..Len(tasks) |-> tasks[i].response]

\* execute_coordinated_task with success = all(...).
coordinated_success_all(engine_responses) ==
  \A i \in 1..Len(engine_responses) : engine_responses[i].success

\* execute_coordinated_task: success = any(response.success ...)
coordinated_success(engine_responses) ==
  \E i \in 1..Len(engine_responses) : engine_responses[i].success

\* _synthesize_results
_synthesize_results(responses) ==
  IF SelectSeq(responses, LAMBDA r : r.success) = <<>>
    THEN "All engines failed" ELSE "synthesized"

\* execute_coordinated_task after its strategy has returned: the response, or
\* the ZeroDivisionError of coordination_summary over no responses
CoordinatedResult(engine_responses) ==
  IF Len(engine_responses) = 0
    THEN [how |-> "raised", error |-> "ZeroDivisionError"]
    ELSE [how |-> "returned", success |-> coordinated_success(engine_responses),
          primary_result |-> _synthesize_results(engine_responses),
          engine_responses |-> engine_responses]

ECIdleFrame ==
  [pc |-> "idle", request |-> [strategy |-> "none"], idx |-> 1, data |-> InputData,
   responses |-> <<>>, tasks |-> <<>>, plan |-> <<>>, input_writes |-> {},
   result |-> [how |-> "none"]]

\* The coordinator as constructed.
ECState0 ==
  [engines |-> {}, call |-> ECIdleFrame, metrics |-> [total_coordinated_tasks |-> 0]]

\* The frame when the strategy has returned engine_responses.
ECReturned(f, engine_responses) ==
  [f EXCEPT !.pc = "done", !.responses = engine_responses,
            !.result = CoordinatedResult(engine_responses)]

\* The registered engines of required_engines from position idx on.
ECRemaining(required, idx, engines) ==
  {i \in idx..Len(required) : required[i] \in engines}

\* initialize: the three engines are registered.  A call that finds no
\* engine registered never suspends, so none is in flight here.
ECInitialize ==
  /\ ec_engines = {}
  /\ ec_call.pc \in {"idle", "done"}
  /\ ec_engines' = EngineTypes
  /\ UNCHANGED <<ec_call, ec_metrics, ec_others>>

\* execute_coordinated_task up to the first await of an engine: the strategy
\* is chosen and its loop entered; with nothing to run it returns at once.
\* One call is followed from its start to its return.
ECStart(request) ==
  LET f0 == [ECIdleFrame EXCEPT !.request = request]
      required == request.required_engines
      registered == SelectSeq(required, LAMBDA e : e \in ec_engines)
      plan == SelectSeq(_create_optimal_execution_plan(
                          _analyze_task_for_optimal_engines(request)),
                        LAMBDA st : InSeq(st.engine, required))
      f1 == CASE request.strategy = "sequential" ->
                   IF registered = <<>> THEN ECReturned(f0, <<>>)
                   ELSE [f0 EXCEPT !.pc = "sequential"]
              [] request.strategy = "parallel" ->
                   IF registered = <<>> THEN ECReturned(f0, <<>>)
                   ELSE [f0 EXCEPT !.pc = "parallel",
                           !.tasks = [i \in 1..Len(registered) |->
                                        [engine |-> registered[i], state |-> "running",
                                         outcome |-> "none",
                                         response |-> [success |-> FALSE]]]]
              [] OTHER ->
                   IF plan = <<>> THEN ECReturned(f0, <<>>)
                   ELSE [f0 EXCEPT !.pc = "adaptive", !.plan = plan]
  IN
  /\ ec_call.pc = "idle"
  /\ ec_call' = f1
  /\ ec_metrics' = [ec_metrics EXCEPT !.total_coordinated_tasks =
                      IF f1.pc = "done" THEN @ + 1 ELSE @]
  /\ UNCHANGED <<ec_engines, ec_others>>

\* _execute_sequential: the awaited engine ends with o; its response is
\* appended, current_data updated, and after the last engine the call returns
ECSequentialStep(o) ==
  LET f == ec_call
      required == f.request.required_engines
      remaining == ECRemaining(required, f.idx, ec_engines)
      i == CHOOSE k \in remaining : \A j \in remaining : k <= j
      engine == required[i]
      responses == Append(f.responses, EngineResponse(engine, o, f.data))
      f1 == [f EXCEPT !.idx = i + 1, !.responses = responses,
                      !.data = sequential_next_data(f.data, engine, o)]
  IN
  /\ f.pc = "sequential"
  /\ remaining # {}
  /\ ec_call' = IF ECRemaining(required, i + 1, ec_engines) = {}
                  THEN ECReturned(f1, responses) ELSE f1
  /\ ec_metrics' = [ec_metrics EXCEPT !.total_coordinated_tasks =
                      IF ECRemaining(required, i + 1, ec_engines) = {} THEN @ + 1 ELSE @]
  /\ UNCHANGED <<ec_engines, ec_others>>

\* _execute_parallel: the task of position i ends; every task was created on
\* request.input_data
ECParallelTaskDone(i, o) ==
  /\ ec_call.pc = "parallel"
  /\ i \in 1..Len(ec_call.tasks)
  /\ ec_call.tasks[i].state = "running"
  /\ ec_call' = [ec_call EXCEPT !.tasks[i] =
       [engine |-> @.engine, state |-> "done", outcome |-> o,
        response |-> _execute_engine_with_timing(ec_engines, @.engine, o, InputData)]]
  /\ UNCHANGED <<ec_engines, ec_metrics, ec_others>>

\* _execute_parallel creates every task on request.input_data itself: the
\* dict a task's engine is given is the one its siblings are given.  What the
\* engines do with it is theirs to choose; here the engine of the running
\* task i sets a key in the dict it was given.
ECEngineWrites(i) ==
  /\ ec_call.pc = "parallel"
  /\ i \in 1..Len(ec_call.tasks)
  /\ ec_call.tasks[i].state = "running"
  /\ ec_call.tasks[i].engine \notin ec_call.input_writes
  /\ ec_call' = [ec_call EXCEPT !.input_writes = @ \cup {ec_call.tasks[i].engine}]
  /\ UNCHANGED <<ec_engines, ec_metrics, ec_others>>

\* The keys set by engines in the input the task of position i runs on:
\* request.input_data is passed uncopied, so they are those set by any task.
task_input_writes(f, i) == f.input_writes

\* _execute_parallel: gather returns once every task is done, and the call
\* returns
ECParallelJoin ==
  /\ ec_call.pc = "parallel"
  /\ \A i \in 1..Len(ec_call.tasks) : ec_call.tasks[i].state = "done"
  /\ ec_call' = ECReturned(ec_call, parallel_responses(ec_call.tasks))
  /\ ec_metrics' = [ec_metrics EXCEPT !.total_coordinated_tasks = @ + 1]
  /\ UNCHANGED <<ec_engines, ec_others>>

\* gather cancelling none of its tasks.
gather_cancel_nothing(tasks) == tasks

\* Cancelling the future of asyncio.gather: cancel() is called on every task
\* given to it that has not ended
gather_cancel(tasks) ==
  [i \in 1..Len(tasks) |->
     IF tasks[i].state = "running"
       THEN [tasks[i] EXCEPT !.state = "cancel_requested"] ELSE tasks[i]]

\* The caller cancels execute_coordinated_task while _execute_parallel awaits
\* gather with a task still running: the cancellation goes to the future of
\* gather
ECCancel ==
  /\ ec_call.pc = "parallel"
  /\ \E i \in 1..Len(ec_call.tasks) : ec_call.tasks[i].state = "running"
  /\ ec_call' = [ec_call EXCEPT !.pc = "cancelling", !.tasks = gather_cancel(@)]
  /\ UNCHANGED <<ec_engines, ec_metrics, ec_others>>

\* CancelledError is thrown into the task of position i at its await;
\* "except Exception" of _execute_engine_with_timing lets it through and the
\* task ends
ECTaskCancelled(i) ==
  /\ ec_call.pc \in {"parallel", "cancelling"}
  /\ i \in 1..Len(ec_call.tasks)
  /\ ec_call.tasks[i].state = "cancel_requested"
  /\ ec_call' = [ec_call EXCEPT !.tasks[i].state = "cancelled"]
  /\ UNCHANGED <<ec_engines, ec_metrics, ec_others>>

\* The future of gather ends once every task has: CancelledError is raised
\* in _execute_parallel, passes "except Exception" of
\* execute_coordinated_task, and the call ends cancelled
ECCancelled ==
  /\ ec_call.pc = "cancelling"
  /\ \A i \in 1..Len(ec_call.tasks) : ec_call.tasks[i].state \in {"done", "cancelled"}
  /\ ec_call' = [ec_call EXCEPT !.pc = "cancelled", !.result = [how |-> "cancelled"]]
  /\ UNCHANGED <<ec_engines, ec_metrics, ec_others>>

\* _execute_adaptive: the engine of the current plan step ends with o; after
\* the last step the call returns
ECAdaptiveStep(o) ==
  LET f == ec_call
      step == f.plan[f.idx]
      response == _execute_engine_with_timing(ec_engines, step.engine, o, f.data)
      responses == Append(f.responses, response)
      f1 == [f EXCEPT !.idx = @ + 1, !.responses = responses,
                      !.data = IF response.success /\ step.enhance_next
                                 THEN _enhance_data_for_next_engine(
                                        f.data, step.engine, f.request.is_dict)
                                 ELSE f.data]
  IN
  /\ f.pc = "adaptive"
  /\ f.idx <= Len(f.plan)
  /\ step.engine \in ec_engines \/ o = "raise"
  /\ ec_call' = IF f.idx = Len(f.plan) THEN ECReturned(f1, responses) ELSE f1
  /\ ec_metrics' = [ec_metrics EXCEPT !.total_coordinated_tasks =
                      IF f.idx = Len(f.plan) THEN @ + 1 ELSE @]
  /\ UNCHANGED <<ec_engines, ec_others>>

ECNext ==
  \/ ECInitialize
  \/ \E request \in ECRequests : ECStart(request)
  \/ \E o \in EngineOutcomes : ECSequentialStep(o)
  \/ \E i \in 1..ECMaxRequired, o \in EngineOutcomes : ECParallelTaskDone(i, o)
  \/ \E i \in 1..ECMaxRequired : ECEngineWrites(i)
  \/ ECCancel
  \/ \E i \in 1..ECMaxRequired : ECTaskCancelled(i)
  \/ ECCancelled
  \/ ECParallelJoin
  \/ \E o \in EngineOutcomes : ECAdaptiveStep(o)

(***************************************************************************)
(* Loading and unloading: CPUOptimizedDeepSeekEnhanced, whose load awaits  *)
(* the executor that builds the model, and GGUFModelManager, whose         *)
(* load_model and unload_model have no await.                              *)
(***************************************************************************)
\* Concurrent callers of load / generate_code explored.
LDMaxCalls == 2

LDCalls == 1..LDMaxCalls

\* Largest metrics["models_loaded"] explored.
GGMaxLoads == 2

LDModelTypes == {"template-based", "gguf"}

LDIdleFrame == [pc |-> "idle", op |-> "none"]

\* CPUOptimizedDeepSeekEnhanced.__init__ and GGUFModelManager.__init__
LDState0 ==
  [model_type |-> "template-based",
   is_loaded |-> FALSE,
   calls |-> [c \in LDCalls |-> LDIdleFrame],
   gguf |-> [in_models |-> FALSE, stats_loaded |-> FALSE, models_loaded |-> 0]]

\* load, up to its first await: "template-based" is loaded at once, "gguf"
\* awaits run_in_executor in _load_gguf_model.  The frame and is_loaded
\* after that part, for a caller running op.
load_until_await(frame, model_type, is_loaded, op) ==
  IF model_type = "template-based"
    THEN [frame |-> [frame EXCEPT !.pc = IF op = "generate_code" THEN "generating" ELSE "idle",
                                  !.op = IF op = "generate_code" THEN op ELSE "none"],
          is_loaded |-> TRUE]
    ELSE [frame |-> [frame EXCEPT !.pc = "loading", !.op = op],
          is_loaded |-> is_loaded]

\* load(model_path, model_type) called by the owner of the model
LDLoad(c, model_type) ==
  LET r == load_until_await(ld_calls[c], model_type, ld_is_loaded, "load")
  IN
  /\ ld_calls[c].pc = "idle"
  /\ ld_model_type' = model_type
  /\ ld_is_loaded' = r.is_loaded
  /\ ld_calls' = [ld_calls EXCEPT ![c] = r.frame]
  /\ UNCHANGED <<ld_gguf, ld_others>>

\* generate_code (and _try_generate_with_model before it): "if not
\* is_loaded: await load()"
LDGenerateCode(c) ==
  LET r == load_until_await(ld_calls[c], ld_model_type, ld_is_loaded, "generate_code")
  IN
  /\ ld_calls[c].pc = "idle"
  /\ IF ld_is_loaded
       THEN /\ ld_calls' = [ld_calls EXCEPT ![c] = [pc |-> "generating", op |-> "generate_code"]]
            /\ UNCHANGED ld_is_loaded
       ELSE /\ ld_calls' = [ld_calls EXCEPT ![c] = r.frame]
            /\ ld_is_loaded' = r.is_loaded
  /\ UNCHANGED <<ld_model_type, ld_gguf, ld_others>>

\* _load_gguf_model after run_in_executor: the model was built or not
LDLoaded(c, built) ==
  /\ ld_calls[c].pc = "loading"
  /\ ld_is_loaded' = IF built THEN TRUE ELSE ld_is_loaded
  /\ ld_calls' = [ld_calls EXCEPT ![c] =
       IF @.op = "generate_code" THEN [@ EXCEPT !.pc = "generating"] ELSE LDIdleFrame]
  /\ UNCHANGED <<ld_model_type, ld_gguf, ld_others>>

\* generate_code returns
LDGenerated(c) ==
  /\ ld_calls[c].pc = "generating"
  /\ ld_calls' = [ld_calls EXCEPT ![c] = LDIdleFrame]
  /\ UNCHANGED <<ld_model_type, ld_is_loaded, ld_gguf, ld_others>>

\* unload: no await
LDUnload ==
  /\ ld_is_loaded
  /\ ld_is_loaded' = FALSE
  /\ UNCHANGED <<ld_model_type, ld_calls, ld_gguf, ld_others>>

\* GGUFModelManager.load_model("deepseek-r1"): no await; Llama(...) returns
\* the model, or raises and the except branch clears model_stats["loaded"]
GGLoadModel(built) ==
  /\ ld_gguf.models_loaded < GGMaxLoads
  /\ ld_gguf' = IF built
                  THEN [in_models |-> TRUE, stats_loaded |-> TRUE,
                        models_loaded |-> ld_gguf.models_loaded + 1]
                  ELSE [ld_gguf EXCEPT !.stats_loaded = FALSE]
  /\ UNCHANGED <<ld_model_type, ld_is_loaded, ld_calls, ld_others>>

\* GGUFModelManager.unload_model("deepseek-r1")
GGUnloadModel ==
  /\ ld_gguf.in_models
  /\ ld_gguf' = [in_models |-> FALSE, stats_loaded |-> FALSE,
                 models_loaded |-> ld_gguf.models_loaded - 1]
  /\ UNCHANGED <<ld_model_type, ld_is_loaded, ld_calls, ld_others>>

LDNext ==
  \/ \E c \in LDCalls, t \in LDModelTypes : LDLoad(c, t)
  \/ \E c \in LDCalls : LDGenerateCode(c)
  \/ \E c \in LDCalls, b \in BOOLEAN : LDLoaded(c, b)
  \/ \E c \in LDCalls : LDGenerated(c)
  \/ LDUnload
  \/ \E b \in BOOLEAN : GGLoadModel(b)
  \/ GGUnloadModel

(***************************************************************************)
(* EnhancedModelManager: what a call reports and what it writes to the     *)
(* metrics.  Money is counted in 1/1000000 USD, average_response_time is   *)
(* kept as the exact fraction num/den.                                     *)
(***************************************************************************)
\* Calls of generate_response explored.
MTMaxCalls == 3

\* Token counts a backend reports, and response times measured.
MTTokens == {0, 700}

MTLatencies == {1, 3}

\* GenerationResponse as _generate_with_model returns it
MTResponse(m, tokens_used, cost, success, gguf_response) ==
  [model_used |-> m, tokens_used |-> tokens_used, cost |-> cost,
   success |-> success, gguf_response |-> gguf_response, response_time |-> 0]

\* _generate_gguf: cost=0.0 in both branches
_generate_gguf(m, gguf_success, tokens_generated) ==
  IF gguf_success
    THEN MTResponse(m, tokens_generated, 0, TRUE, TRUE)
    ELSE MTResponse(m, 0, 0, FALSE, TRUE)

\* _generate_local: cost=0.0
_generate_local(m, tokens_used) == MTResponse(m, tokens_used, 0, TRUE, FALSE)

\* A cloud generator that charged a flat price per call.
generate_cloud_flat_price(m, total_tokens) ==
  MTResponse(m, total_tokens, cost_per_token(m), TRUE, FALSE)

\* _generate_openai / _generate_anthropic on status 200:
\* cost = tokens_used * model.cost_per_token / 1000
_generate_cloud(m, total_tokens) ==
  MTResponse(m, total_tokens, total_tokens * cost_per_token(m), TRUE, FALSE)

\* _generate_with_model where it returns
_generate_with_model(m, via, o, tokens) ==
  CASE via = "gguf"  -> _generate_gguf(m, o = "ok", tokens)
    [] via = "local" -> _generate_local(m, tokens)
    [] via = "cloud" -> _generate_cloud(m, tokens)

\* generate_response, "Update model metrics": success_count += 1 and
\* average_response_time = (average_response_time * (success_count - 1)
\* + response_time) / success_count
success_metrics(model, response) ==
  [model EXCEPT
     !.success_count = @ + 1,
     !.avg = [num |-> model.avg.num * model.success_count
                        + response.response_time * model.avg.den,
              den |-> model.avg.den * (model.success_count + 1)]]

MTNoResponse == [model_used |-> "none"]

\* The manager as constructed, before any call
MTState0 ==
  [loaded |-> FALSE,
   models |-> [m \in EMMModels |->
                 [success_count |-> 0, error_count |-> 0, avg |-> [num |-> 0, den |-> 1]]],
   metrics |-> [total_requests |-> 0, successful_requests |-> 0,
                failed_requests |-> 0, total_cost |-> 0],
   served |-> [m \in EMMModels |-> [k |-> 0, sum |-> 0]],
   last |-> MTNoResponse]

\* initialize_gguf_models loads "deepseek-r1"
MTInitializeGguf ==
  /\ ~mt_loaded
  /\ mt_loaded' = TRUE
  /\ UNCHANGED <<mt_models, mt_metrics, mt_served, mt_last, mt_others>>

\* generate_response on model m whose generator returns after latency:
\* response_time is set, then the metrics are updated
MTGenerated(m, o, tokens, latency) ==
  LET via == GeneratorOf(m, [gguf |-> TRUE], mt_loaded)
      response == [_generate_with_model(m, via, o, tokens) EXCEPT !.response_time = latency]
  IN
  /\ mt_metrics.total_requests < MTMaxCalls
  /\ o \in GenOutcomes(via) \ {"raise"}
  /\ mt_metrics' = [mt_metrics EXCEPT !.total_requests = @ + 1,
                                      !.successful_requests = @ + 1,
                                      !.total_cost = @ + response.cost]
  /\ mt_models' = [mt_models EXCEPT ![m] = success_metrics(@, response)]
  /\ mt_served' = [mt_served EXCEPT ![m] =
                     IF response.success
                       THEN [k |-> @.k + 1, sum |-> @.sum + latency]
                       ELSE @]
  /\ mt_last' = response
  /\ UNCHANGED <<mt_loaded, mt_others>>

\* generate_response on model m whose generator raises (the failure is
\* returned; a fallback is one more call)
MTFailed(m) ==
  LET via == GeneratorOf(m, [gguf |-> TRUE], mt_loaded)
  IN
  /\ mt_metrics.total_requests < MTMaxCalls
  /\ "raise" \in GenOutcomes(via)
  /\ mt_metrics' = [mt_metrics EXCEPT !.total_requests = @ + 1, !.failed_requests = @ + 1]
  /\ mt_models' = [mt_models EXCEPT ![m].error_count = @ + 1]
  /\ mt_last' = [MTResponse(m, 0, 0, FALSE, FALSE) EXCEPT !.response_time = 0]
  /\ UNCHANGED <<mt_loaded, mt_served, mt_others>>

MTNext ==
  \/ MTInitializeGguf
  \/ \E m \in EMMModels, o \in {"ok", "failed_response"}, t \in MTTokens, l \in MTLatencies :
       MTGenerated(m, o, t, l)
  \/ \E m \in EMMModels : MTFailed(m)

(***************************************************************************)
(* APILLMManager: the current model and the fallback over model_priority.  *)
(* EnhancedLLMManager and APIProviderManager run the same loop over their  *)
(* own priority lists.                                                     *)
(***************************************************************************)
\* model_priority
APIPriority == <<"api_deepseek", "api_gemini", "api_claude", "api_openai">>

\* Concurrent generate_response calls explored.
APIMaxCalls == 2

\* The managers explored: which model types initialize registered in
\* models, and fallback_enabled.
APIConfigs ==
  [models : { {}, {"api_deepseek"}, {"api_deepseek", "api_gemini"},
              {"api_gemini", "api_claude", "api_openai"}, Range(APIPriority) },
   fallback_enabled : BOOLEAN]

\* _select_optimal_model: the first model of model_priority that is in models
_select_optimal_model(cfg) ==
  IF cfg.models = {} THEN NoModel
  ELSE APIPriority[CHOOSE i \in 1..Len(APIPriority) :
                     /\ APIPriority[i] \in cfg.models
                     /\ \A j \in 1..(i - 1) : APIPriority[j] \notin cfg.models]

\* The manager after initialize
APIState0(cfg) ==
  [cfg |-> cfg,
   current |-> _select_optimal_model(cfg),
   calls |-> [c \in 1..APIMaxCalls |->
                [pc |-> "idle", model |-> NoModel, pos |-> 0, how |-> "none"]]]

\* _try_fallback_models, the loop from position from on: the position of
\* the next model that is not current_model and is in models, 0 if none
next_candidate(cfg, current, from) ==
  LET ok == {i \in from..Len(APIPriority) :
               APIPriority[i] # current /\ APIPriority[i] \in cfg.models}
  IN  IF ok = {} THEN 0 ELSE CHOOSE i \in ok : \A j \in ok : i <= j

\* The frame of a call that enters or continues the loop of
\* _try_fallback_models at position from
enter_fallback(frame, cfg, current, from) ==
  LET n == next_candidate(cfg, current, from)
  IN  IF n = 0
        THEN [frame EXCEPT !.pc = "done", !.how = "all_failed"]
        ELSE [frame EXCEPT !.pc = "fallback", !.model = APIPriority[n], !.pos = n]

\* A fallback that left current_model as it was.
current_after_fallback_unchanged(current, model_type) == current

\* _try_fallback_models: "self.current_model = model_type"
current_after_fallback(current, model_type) == model_type

\* generate_response up to its first await
APIStart(c) ==
  /\ api_calls[c].pc = "idle"
  /\ api_calls' = [api_calls EXCEPT ![c] =
       IF api_current # NoModel /\ api_current \in api_cfg.models
         THEN [@ EXCEPT !.pc = "primary", !.model = api_current]
         ELSE enter_fallback(@, api_cfg, api_current, 1)]
  /\ UNCHANGED <<api_cfg, api_current, api_others>>

\* _generate_with_model(current_model) returns or raises
APIPrimaryDone(c, ok) ==
  /\ api_calls[c].pc = "primary"
  /\ api_calls' = [api_calls EXCEPT ![c] =
       IF ok THEN [@ EXCEPT !.pc = "done", !.how = "primary_ok"]
       ELSE IF api_cfg.fallback_enabled THEN enter_fallback(@, api_cfg, api_current, 1)
       ELSE [@ EXCEPT !.pc = "done", !.how = "failed"]]
  /\ UNCHANGED <<api_cfg, api_current, api_others>>

\* _generate_with_model of a fallback model returns or raises
APIFallbackDone(c, ok) ==
  LET f == api_calls[c]
  IN
  /\ f.pc = "fallback"
  /\ IF ok
       THEN /\ api_current' = current_after_fallback(api_current, f.model)
            /\ api_calls' = [api_calls EXCEPT ![c] =
                 [@ EXCEPT !.pc = "done", !.how = "fallback_ok"]]
       ELSE /\ api_current' = api_current
            /\ api_calls' = [api_calls EXCEPT ![c] =
                 enter_fallback(@, api_cfg, api_current, f.pos + 1)]
  /\ UNCHANGED <<api_cfg, api_others>>

\* The response (or the error response) has been returned; the caller may
\* call again
APIReturn(c) ==
  /\ api_calls[c].pc = "done"
  /\ api_calls' = [api_calls EXCEPT ![c] =
       [pc |-> "idle", model |-> NoModel, pos |-> 0, how |-> "none"]]
  /\ UNCHANGED <<api_cfg, api_current, api_others>>

APINext ==
  \/ \E c \in 1..APIMaxCalls : APIStart(c)
  \/ \E c \in 1..APIMaxCalls, ok \in BOOLEAN : APIPrimaryDone(c, ok)
  \/ \E c \in 1..APIMaxCalls, ok \in BOOLEAN : APIFallbackDone(c, ok)
  \/ \E c \in 1..APIMaxCalls : APIReturn(c)

(***************************************************************************)
(* _determine_fallback_reason on its own: every error message with up to   *)
(* CLMaxKeywords of the keywords it looks for.                             *)
(***************************************************************************)
\* The words _determine_fallback_reason looks for in the lower-cased message
ErrorKeywords ==
  {"time", "out", "exceed", "rate", "limit", "content", "policy", "moderation",
   "resource", "memory", "capacity", "cost", "billing", "quota"}

\* Most keywords in one message explored.
CLMaxKeywords == 4

\* str(error): any message, before it is classified
CLState0(msg) == [msg |-> msg, reason |-> "none"]

\* reason=self._determine_fallback_reason(str(primary_error))
CLClassify ==
  /\ cl_error.reason = "none"
  /\ cl_error' = [cl_error EXCEPT !.reason = _determine_fallback_reason(cl_error.msg)]
  /\ UNCHANGED cl_others

(***************************************************************************)
(* EnhancedModelManager: the life of the health monitor task.  A task is   *)
(* suspended at an await (before its first run, in the request to a        *)
(* health_check_url, in asyncio.sleep) or is running ("loop"); start, stop *)
(* and shutdown are called while no task is running.                       *)
(***************************************************************************)
\* Tasks that start_health_monitoring can create in one behaviour.
HMMaxTasks == 2

\* Calls of start_health_monitoring, stop_health_monitoring, shutdown explored.
HMMaxOps == 4

\* Rounds of the loop of _health_monitor one task makes.
HMMaxRounds == 1

HMTasks == 1..HMMaxTasks

HMNoTask ==
  [state |-> "none", at |-> "start", pos |-> 1, rounds |-> 0,
   must_cancel |-> FALSE, late |-> 0]

HMState0(env) ==
  [env |-> env,
   task |-> 0,
   tasks |-> [t \in HMTasks |-> HMNoTask],
   status |-> EMMState0(env).status,
   ops |-> 0]

\* No task is between two awaits.
HMLoopIdle == \A t \in HMTasks : hm_tasks[t].at # "loop"

\* Task.cancel(): a task that has not ended gets CancelledError at the await
\* it is suspended at.
cancel(tasks, t) ==
  IF tasks[t].state = "pending" THEN [tasks EXCEPT ![t].must_cancel = TRUE] ELSE tasks

\* start_health_monitoring: creates the task only if health_check_task is None
HMStart ==
  /\ hm_ops < HMMaxOps
  /\ HMLoopIdle
  /\ hm_ops' = hm_ops + 1
  /\ IF hm_task = 0 /\ \E t \in HMTasks : hm_tasks[t].state = "none"
       THEN LET t == CHOOSE u \in HMTasks :
                       /\ hm_tasks[u].state = "none"
                       /\ \A v \in HMTasks : hm_tasks[v].state = "none" => u <= v
            IN  /\ hm_task' = t
                /\ hm_tasks' = [hm_tasks EXCEPT ![t].state = "pending"]
       ELSE UNCHANGED <<hm_task, hm_tasks>>
  /\ UNCHANGED <<hm_env, hm_status, hm_others>>

\* stop_health_monitoring: cancels the task and forgets it
HMStop ==
  /\ hm_ops < HMMaxOps
  /\ HMLoopIdle
  /\ hm_ops' = hm_ops + 1
  /\ IF hm_task # 0
       THEN hm_tasks' = cancel(hm_tasks, hm_task) /\ hm_task' = 0
       ELSE UNCHANGED <<hm_task, hm_tasks>>
  /\ UNCHANGED <<hm_env, hm_status, hm_others>>

\* shutdown: cancels the task and keeps the reference to it
HMShutdown ==
  /\ hm_ops < HMMaxOps
  /\ HMLoopIdle
  /\ hm_ops' = hm_ops + 1
  /\ hm_tasks' = IF hm_task # 0 THEN cancel(hm_tasks, hm_task) ELSE hm_tasks
  /\ UNCHANGED <<hm_env, hm_task, hm_status, hm_others>>

\* The task's frame once the check of the model at pos is over: the next
\* model, or asyncio.sleep(health_check_interval) after the last one.
HMAdvance(f) ==
  IF f.pos = Len(EMMOrder) THEN [f EXCEPT !.at = "sleep"]
  ELSE [f EXCEPT !.pos = @ + 1, !.at = "loop"]

\* _health_monitor starts, or wakes from asyncio.sleep, and begins a round
HMResume(t) ==
  LET f == hm_tasks[t]
  IN
  /\ f.state = "pending" /\ ~f.must_cancel
  /\ f.at \in {"start", "sleep"}
  /\ HMLoopIdle
  /\ f.rounds < HMMaxRounds
  /\ hm_tasks' = [hm_tasks EXCEPT ![t] = [f EXCEPT !.at = "loop", !.pos = 1, !.rounds = @ + 1]]
  /\ UNCHANGED <<hm_env, hm_task, hm_status, hm_ops, hm_others>>

\* _check_model_health of the model at pos, up to its end or to the await of
\* the request to health_check_url.  The GGUF model manager of a host with
\* GGUF integration has the model loaded or not (o).
HMCheck(t, o) ==
  LET f == hm_tasks[t]
      m == EMMOrder[f.pos]
      probes == ~(gguf_enabled(m) /\ hm_env.gguf) /\ "probe_error" \in CheckOutcomes(m, hm_env, FALSE)
  IN
  /\ f.state = "pending" /\ f.at = "loop"
  /\ IF o = "probe"
       THEN /\ probes
            /\ hm_tasks' = [hm_tasks EXCEPT ![t].at =
                              IF IsLocal(m) THEN "local_probe" ELSE "cloud_probe"]
            /\ UNCHANGED hm_status
       ELSE /\ o \in (CheckOutcomes(m, hm_env, TRUE) \cup CheckOutcomes(m, hm_env, FALSE))
            /\ probes => o \in {"unavailable", "raise"} /\ IsLocal(m)
            /\ hm_status' = [hm_status EXCEPT ![m] = check_status(o)]
            /\ hm_tasks' = [hm_tasks EXCEPT ![t] = HMAdvance(f)]
  /\ UNCHANGED <<hm_env, hm_task, hm_ops, hm_others>>

\* The request to health_check_url ends: a status, or an exception that
\* the check catches
HMProbed(t, o) ==
  LET f == hm_tasks[t]
      m == EMMOrder[f.pos]
  IN
  /\ f.state = "pending" /\ ~f.must_cancel
  /\ f.at \in {"local_probe", "cloud_probe"}
  /\ HMLoopIdle
  /\ o \in {"available", "unavailable", "probe_error"}
  /\ hm_status' = [hm_status EXCEPT ![m] = check_status(o)]
  /\ hm_tasks' = [hm_tasks EXCEPT ![t] = HMAdvance(f)]
  /\ UNCHANGED <<hm_env, hm_task, hm_ops, hm_others>>

\* CancelledError is thrown into the task at its await.  The bare "except:"
\* around the request of _check_local_model_health catches it, sets
\* UNAVAILABLE and the task goes on; "except Exception" of
\* _check_cloud_model_health, of _check_model_health and of _health_monitor
\* let it through and the task ends.
HMCancelled(t) ==
  LET f == hm_tasks[t]
      m == EMMOrder[f.pos]
  IN
  /\ f.state = "pending" /\ f.must_cancel
  /\ HMLoopIdle
  /\ IF f.at = "local_probe"
       THEN /\ hm_status' = [hm_status EXCEPT ![m] = "unavailable"]
            /\ hm_tasks' = [hm_tasks EXCEPT ![t] =
                 HMAdvance([f EXCEPT !.must_cancel = FALSE, !.late = @ + 1])]
       ELSE /\ hm_tasks' = [hm_tasks EXCEPT ![t] = [f EXCEPT !.state = "done",
                                                            !.must_cancel = FALSE]]
            /\ UNCHANGED hm_status
  /\ UNCHANGED <<hm_env, hm_task, hm_ops, hm_others>>

HMNext ==
  \/ HMStart
  \/ HMStop
  \/ HMShutdown
  \/ \E t \in HMTasks : HMResume(t)
  \/ \E t \in HMTasks, o \in CheckResults \cup {"probe"} : HMCheck(t, o)
  \/ \E t \in HMTasks, o \in CheckResults : HMProbed(t, o)
  \/ \E t \in HMTasks : HMCancelled(t)

(***************************************************************************)
(* ParallelMindEngine: submit_task puts a task into active_tasks and into  *)
(* task_queue; the background processor _process_tasks takes tasks from    *)
(* the queue and starts _execute_task for them; cancel_task records a      *)
(* task as cancelled.                                                      *)
(***************************************************************************)
\* submit_task calls explored; a task's id is its position in pm_tasks.
PMMaxTasks == 3

\* config['max_concurrent_tasks'] (10 when the config does not give it)
max_concurrent_tasks == 2

PMIds == 1..PMMaxTasks

\* How the awaited reasoning of _execute_task can end: a result, the timeout
\* of wait_for, an exception.
PMOutcomes == {"ok", "timeout", "raise"}

\* ReasoningTask, by what the engine reads of it: dependencies and whether a
\* callback was given
ReasoningTask(dependencies, callback) ==
  [dependencies |-> dependencies, callback |-> callback]

\* __init__
PMState0 ==
  [processor |-> FALSE, tasks |-> <<>>, active |-> {},
   completed |-> [t \in PMIds |-> "none"], queue |-> <<>>, executing |-> {},
   stats |-> [total_tasks |-> 0, completed_tasks |-> 0, failed_tasks |-> 0],
   cancelled |-> {}, callbacks |-> {}]

\* start: the processor task is created if there is none
PMStart ==
  /\ ~pm_processor
  /\ pm_processor' = TRUE
  /\ UNCHANGED <<pm_tasks, pm_active, pm_completed, pm_queue, pm_executing,
                 pm_stats, pm_cancelled, pm_callbacks, pm_others>>

\* stop: the processor task is cancelled at its await and forgotten; the
\* _execute_task tasks it created go on
PMStop ==
  /\ pm_processor
  /\ pm_processor' = FALSE
  /\ UNCHANGED <<pm_tasks, pm_active, pm_completed, pm_queue, pm_executing,
                 pm_stats, pm_cancelled, pm_callbacks, pm_others>>

\* submit_task: the task goes into active_tasks and then into the queue,
\* which is not full, so put does not suspend.  A task depends on at most
\* one task submitted before it.
PMSubmit(dependencies, callback) ==
  LET id == Len(pm_tasks) + 1 IN
  /\ Len(pm_tasks) < PMMaxTasks
  /\ dependencies \subseteq 1..Len(pm_tasks)
  /\ Cardinality(dependencies) <= 1
  /\ pm_tasks' = Append(pm_tasks, ReasoningTask(dependencies, callback))
  /\ pm_active' = pm_active \cup {id}
  /\ pm_queue' = Append(pm_queue, id)
  /\ pm_stats' = [pm_stats EXCEPT !.total_tasks = @ + 1]
  /\ UNCHANGED <<pm_processor, pm_completed, pm_executing, pm_cancelled,
                 pm_callbacks, pm_others>>

\* _check_dependencies: every dependency is a key of completed_tasks
_check_dependencies(completed, task) ==
  \A dep_id \in task.dependencies : completed[dep_id] # "none"

\* _process_tasks: running_count, the number of entries of active_tasks
\* (the filter "t.id in self.active_tasks" holds for each of its values)
running_count(active) == Cardinality(active)

\* _process_tasks, one turn of its loop with a task in the queue: the task
\* is put back when a dependency is missing or when running_count has
\* reached max_concurrent_tasks, and _execute_task is started for it
\* otherwise.  The sleep after putting back changes nothing.
PMProcess ==
  LET id == Head(pm_queue)
      starts == /\ _check_dependencies(pm_completed, pm_tasks[id])
                /\ running_count(pm_active) < max_concurrent_tasks
  IN
  /\ pm_processor
  /\ pm_queue # <<>>
  /\ pm_queue' = IF starts THEN Tail(pm_queue) ELSE Append(Tail(pm_queue), id)
  /\ pm_executing' = IF starts THEN pm_executing \cup {id} ELSE pm_executing
  /\ UNCHANGED <<pm_processor, pm_tasks, pm_active, pm_completed, pm_stats,
                 pm_cancelled, pm_callbacks, pm_others>>

\* _execute_task after its await: with a result the task is recorded as
\* completed, taken out of active_tasks if it is there, counted, and its
\* callback awaited; a timeout or an exception goes to _handle_task_failure,
\* which records it as failed.  Both write completed_tasks[task.id] whatever
\* it holds.
PMExecuted(id, o) ==
  /\ id \in pm_executing
  /\ pm_executing' = pm_executing \ {id}
  /\ pm_completed' = [pm_completed EXCEPT ![id] = IF o = "ok" THEN "completed" ELSE "failed"]
  /\ pm_active' = pm_active \ {id}
  /\ pm_stats' = IF o = "ok" THEN [pm_stats EXCEPT !.completed_tasks = @ + 1]
                 ELSE [pm_stats EXCEPT !.failed_tasks = @ + 1]
  /\ pm_callbacks' = IF o = "ok" /\ pm_tasks[id].callback
                       THEN pm_callbacks \cup {id} ELSE pm_callbacks
  /\ UNCHANGED <<pm_processor, pm_tasks, pm_queue, pm_cancelled, pm_others>>

\* cancel_task: a task found in active_tasks is taken out of it and recorded
\* as cancelled, and True is returned; the queue and the _execute_task in
\* flight are not touched.  For any other id False is returned.
PMCancelTask(id) ==
  /\ id \in 1..Len(pm_tasks)
  /\ id \in pm_active
  /\ pm_active' = pm_active \ {id}
  /\ pm_completed' = [pm_completed EXCEPT ![id] = "cancelled"]
  /\ pm_cancelled' = pm_cancelled \cup {id}
  /\ UNCHANGED <<pm_processor, pm_tasks, pm_queue, pm_executing, pm_stats,
                 pm_callbacks, pm_others>>

PMNext ==
  \/ PMStart
  \/ PMStop
  \/ \E dependencies \in SUBSET PMIds, callback \in BOOLEAN :
       PMSubmit(dependencies, callback)
  \/ PMProcess
  \/ \E id \in PMIds, o \in PMOutcomes : PMExecuted(id, o)
  \/ \E id \in PMIds : PMCancelTask(id)

(***************************************************************************)
(* The request counters of EnhancedModelManager and of APILLMManager:      *)
(* total_requests is counted when generate_response is entered, and        *)
(* successful_requests or failed_requests when a generator has answered,   *)
(* with other calls and the health checks running in between.              *)
(***************************************************************************)
\* Concurrent generate_response calls explored.
RQMaxCalls == 2

\* total_requests of a manager up to which a new call is started.
RQMaxRequests == 3

RQCalls == 1..RQMaxCalls

\* The requests explored: what the counting depends on is whether a model
\* is selected and whether the request allows fallback.
RQRequests ==
  { EMMRequest("auto", FALSE, fa, 0) : fa \in BOOLEAN }
  \cup { EMMRequest("anthropic-claude", FALSE, TRUE, 0) }

RQManagers == {"emm", "api"}

RQIdleFrame ==
  [pc |-> "idle", manager |-> "none", request |-> [model_preference |-> "auto"],
   model |-> NoModel, pos |-> 0]

\* The manager that is constructed and initialized, before any call: an
\* EnhancedModelManager on host env or an APILLMManager with configuration
\* cfg.  The two share nothing, and the one that is not constructed gets
\* no call.
RQState0(manager, env, cfg) ==
  [emm |-> [constructed |-> manager = "emm", env |-> env,
            status |-> EMMState0(env).status, loaded |-> FALSE],
   api |-> [constructed |-> manager = "api", cfg |-> cfg,
            current |-> _select_optimal_model(cfg)],
   metrics |-> [m \in RQManagers |->
                  [total_requests |-> 0, successful_requests |-> 0, failed_requests |-> 0]],
   calls |-> [c \in RQCalls |-> RQIdleFrame]]

\* A request entered generate_response
counted_request(metrics) == [metrics EXCEPT !.total_requests = @ + 1]

\* A failure that is returned without being counted.
counted_failure_dropped(metrics) == metrics

\* "self.metrics['failed_requests'] += 1"
counted_failure(metrics) == [metrics EXCEPT !.failed_requests = @ + 1]

\* "self.metrics['successful_requests'] += 1"
counted_success(metrics) == [metrics EXCEPT !.successful_requests = @ + 1]

\* EnhancedModelManager.generate_response from its entry to its first await
\* or its return: total_requests, the selection, and failed_requests when no
\* model is available
emm_enter(frame, metrics, status, request) ==
  LET sel == _select_model(status, request)
      m1  == counted_request(metrics)
  IN  IF sel = NoModel
        THEN [frame |-> RQIdleFrame, metrics |-> counted_failure(m1)]
        ELSE [frame |-> [frame EXCEPT !.pc = "generating", !.manager = "emm",
                                      !.request = request, !.model = sel],
              metrics |-> m1]

\* One _check_model_health, or initialize_gguf_models, changes what the
\* EnhancedModelManager has available
RQHealthCheck(m, o) ==
  /\ rq_emm.constructed
  /\ o \in CheckOutcomes(m, rq_emm.env, rq_emm.loaded)
  /\ rq_emm' = [rq_emm EXCEPT !.status[m] = check_status(o)]
  /\ UNCHANGED <<rq_api, rq_metrics, rq_calls, rq_others>>

RQInitializeGguf(success) ==
  /\ rq_emm.constructed
  /\ rq_emm.env.gguf
  /\ ~rq_emm.loaded
  /\ rq_emm' = [rq_emm EXCEPT !.loaded = success,
                  !.status["deepseek-r1"] = IF success THEN "available" ELSE "error"]
  /\ UNCHANGED <<rq_api, rq_metrics, rq_calls, rq_others>>

\* EnhancedModelManager.generate_response is called
RQEmmStart(c, request) ==
  LET e == emm_enter(rq_calls[c], rq_metrics["emm"], rq_emm.status, request)
  IN
  /\ rq_emm.constructed
  /\ rq_calls[c].pc = "idle"
  /\ rq_metrics["emm"].total_requests < RQMaxRequests
  /\ rq_calls' = [rq_calls EXCEPT ![c] = e.frame]
  /\ rq_metrics' = [rq_metrics EXCEPT !["emm"] = e.metrics]
  /\ UNCHANGED <<rq_emm, rq_api, rq_others>>

\* _generate_with_model returns a response: successful_requests, and the
\* response is returned
RQEmmGenerated(c, o) ==
  LET f == rq_calls[c]
  IN
  /\ f.pc = "generating"
  /\ o \in GenOutcomes(GeneratorOf(f.model, rq_emm.env, rq_emm.loaded)) \ {"raise"}
  /\ rq_calls' = [rq_calls EXCEPT ![c] = RQIdleFrame]
  /\ rq_metrics' = [rq_metrics EXCEPT !["emm"] = counted_success(@)]
  /\ UNCHANGED <<rq_emm, rq_api, rq_others>>

\* _generate_with_model raises: failed_requests, then the fallback request
\* enters generate_response, or the failure is returned
RQEmmFailed(c) ==
  LET f  == rq_calls[c]
      m1 == counted_failure(rq_metrics["emm"])
      e  == emm_enter(f, m1, rq_emm.status, fallback_request(f.request))
  IN
  /\ f.pc = "generating"
  /\ "raise" \in GenOutcomes(GeneratorOf(f.model, rq_emm.env, rq_emm.loaded))
  /\ IF fallback_taken(f.request, f.model)
       THEN /\ rq_calls' = [rq_calls EXCEPT ![c] = e.frame]
            /\ rq_metrics' = [rq_metrics EXCEPT !["emm"] = e.metrics]
       ELSE /\ rq_calls' = [rq_calls EXCEPT ![c] = RQIdleFrame]
            /\ rq_metrics' = [rq_metrics EXCEPT !["emm"] = m1]
  /\ UNCHANGED <<rq_emm, rq_api, rq_others>>

\* APILLMManager: _try_fallback_models entered or continued at position
\* from.  With no model left it raises "All models failed", and the handler
\* of generate_response counts the failure and returns the error response.
api_fallback(frame, metrics, cfg, current, from) ==
  LET n == next_candidate(cfg, current, from)
  IN  IF n = 0
        THEN [frame |-> RQIdleFrame, metrics |-> counted_failure(metrics)]
        ELSE [frame |-> [frame EXCEPT !.pc = "fallback", !.manager = "api",
                                      !.model = APIPriority[n], !.pos = n],
              metrics |-> metrics]

\* APILLMManager.generate_response is called
RQApiStart(c) ==
  LET m1 == counted_request(rq_metrics["api"])
      e  == IF rq_api.current # NoModel /\ rq_api.current \in rq_api.cfg.models
              THEN [frame |-> [rq_calls[c] EXCEPT !.pc = "primary", !.manager = "api",
                                                  !.model = rq_api.current],
                    metrics |-> m1]
              ELSE api_fallback(rq_calls[c], m1, rq_api.cfg, rq_api.current, 1)
  IN
  /\ rq_api.constructed
  /\ rq_calls[c].pc = "idle"
  /\ rq_metrics["api"].total_requests < RQMaxRequests
  /\ rq_calls' = [rq_calls EXCEPT ![c] = e.frame]
  /\ rq_metrics' = [rq_metrics EXCEPT !["api"] = e.metrics]
  /\ UNCHANGED <<rq_emm, rq_api, rq_others>>

\* _generate_with_model(current_model) returns or raises; without fallback
\* the exception is raised again and counted by the outer handler
RQApiPrimaryDone(c, ok) ==
  LET f == rq_calls[c]
      e == IF ok THEN [frame |-> RQIdleFrame, metrics |-> counted_success(rq_metrics["api"])]
           ELSE IF rq_api.cfg.fallback_enabled
             THEN api_fallback(f, rq_metrics["api"], rq_api.cfg, rq_api.current, 1)
           ELSE [frame |-> RQIdleFrame, metrics |-> counted_failure(rq_metrics["api"])]
  IN
  /\ f.pc = "primary"
  /\ rq_calls' = [rq_calls EXCEPT ![c] = e.frame]
  /\ rq_metrics' = [rq_metrics EXCEPT !["api"] = e.metrics]
  /\ UNCHANGED <<rq_emm, rq_api, rq_others>>

\* _generate_with_model of a fallback model returns or raises
RQApiFallbackDone(c, ok) ==
  LET f == rq_calls[c]
      e == IF ok THEN [frame |-> RQIdleFrame, metrics |-> counted_success(rq_metrics["api"])]
           ELSE api_fallback(f, rq_metrics["api"], rq_api.cfg, rq_api.current, f.pos + 1)
  IN
  /\ f.pc = "fallback"
  /\ rq_calls' = [rq_calls EXCEPT ![c] = e.frame]
  /\ rq_metrics' = [rq_metrics EXCEPT !["api"] = e.metrics]
  /\ rq_api' = IF ok THEN [rq_api EXCEPT !.current = current_after_fallback(@, f.model)]
               ELSE rq_api
  /\ UNCHANGED <<rq_emm, rq_others>>

RQNext ==
  \/ \E m \in EMMModels, o \in CheckResults : RQHealthCheck(m, o)
  \/ \E b \in BOOLEAN : RQInitializeGguf(b)
  \/ \E c \in RQCalls, r \in RQRequests : RQEmmStart(c, r)
  \/ \E c \in RQCalls, o \in {"ok", "failed_response"} : RQEmmGenerated(c, o)
  \/ \E c \in RQCalls : RQEmmFailed(c)
  \/ \E c \in RQCalls : RQApiStart(c)
  \/ \E c \in RQCalls, ok \in BOOLEAN : RQApiPrimaryDone(c, ok)
  \/ \E c \in RQCalls, ok \in BOOLEAN : RQApiFallbackDone(c, ok)

(***************************************************************************)
(* Specifications.  Each runs one subsystem from its initial states and    *)
(* leaves the others as constructed.                                       *)
(***************************************************************************)
FMQuiet == FMState0(CHOOSE cfg \in FMConfigs : TRUE)

EMMQuiet == EMMState0(CHOOSE e \in EMMEnvs : TRUE)

APIQuiet == APIState0(CHOOSE cfg \in APIConfigs : TRUE)

HMQuiet == HMState0(CHOOSE e \in EMMEnvs : TRUE)

RQQuiet == RQState0("emm", CHOOSE e \in EMMEnvs : TRUE, CHOOSE cfg \in APIConfigs : TRUE)

FMInit ==
  /\ \E cfg \in FMConfigs :
       /\ fm_cfg = FMState0(cfg).cfg
       /\ fm_loaded = FMState0(cfg).loaded
       /\ fm_calls = FMState0(cfg).calls
       /\ fm_events = FMState0(cfg).events
  /\ emm_env = EMMQuiet.env
  /\ emm_status = EMMQuiet.status
  /\ emm_err = EMMQuiet.err
  /\ emm_succ = EMMQuiet.succ
  /\ emm_loaded = EMMQuiet.loaded
  /\ emm_mon = EMMQuiet.mon
  /\ emm_calls = EMMQuiet.calls
  /\ ec_engines = ECState0.engines
  /\ ec_call = ECState0.call
  /\ ec_metrics = ECState0.metrics
  /\ ld_model_type = LDState0.model_type
  /\ ld_is_loaded = LDState0.is_loaded
  /\ ld_calls = LDState0.calls
  /\ ld_gguf = LDState0.gguf
  /\ mt_loaded = MTState0.loaded
  /\ mt_models = MTState0.models
  /\ mt_metrics = MTState0.metrics
  /\ mt_served = MTState0.served
  /\ mt_last = MTState0.last
  /\ api_cfg = APIQuiet.cfg
  /\ api_current = APIQuiet.current
  /\ api_calls = APIQuiet.calls
  /\ cl_error = CLState0({})
  /\ hm_env = HMQuiet.env
  /\ hm_task = HMQuiet.task
  /\ hm_tasks = HMQuiet.tasks
  /\ hm_status = HMQuiet.status
  /\ hm_ops = HMQuiet.ops
  /\ pm_processor = PMState0.processor
  /\ pm_tasks = PMState0.tasks
  /\ pm_active = PMState0.active
  /\ pm_completed = PMState0.completed
  /\ pm_queue = PMState0.queue
  /\ pm_executing = PMState0.executing
  /\ pm_stats = PMState0.stats
  /\ pm_cancelled = PMState0.cancelled
  /\ pm_callbacks = PMState0.callbacks
  /\ rq_emm = RQQuiet.emm
  /\ rq_api = RQQuiet.api
  /\ rq_metrics = RQQuiet.metrics
  /\ rq_calls = RQQuiet.calls

EMMInit ==
  /\ \E env \in EMMEnvs :
       /\ emm_env = EMMState0(env).env
       /\ emm_status = EMMState0(env).status
       /\ emm_err = EMMState0(env).err
       /\ emm_succ = EMMState0(env).succ
       /\ emm_loaded = EMMState0(env).loaded
       /\ emm_mon = EMMState0(env).mon
       /\ emm_calls = EMMState0(env).calls
  /\ fm_cfg = FMQuiet.cfg
  /\ fm_loaded = FMQuiet.loaded
  /\ fm_calls = FMQuiet.calls
  /\ fm_events = FMQuiet.events
  /\ ec_engines = ECState0.engines
  /\ ec_call = ECState0.call
  /\ ec_metrics = ECState0.metrics
  /\ ld_model_type = LDState0.model_type
  /\ ld_is_loaded = LDState0.is_loaded
  /\ ld_calls = LDState0.calls
  /\ ld_gguf = LDState0.gguf
  /\ mt_loaded = MTState0.loaded
  /\ mt_models = MTState0.models
  /\ mt_metrics = MTState0.metrics
  /\ mt_served = MTState0.served
  /\ mt_last = MTState0.last
  /\ api_cfg = APIQuiet.cfg
  /\ api_current = APIQuiet.current
  /\ api_calls = APIQuiet.calls
  /\ cl_error = CLState0({})
  /\ hm_env = HMQuiet.env
  /\ hm_task = HMQuiet.task
  /\ hm_tasks = HMQuiet.tasks
  /\ hm_status = HMQuiet.status
  /\ hm_ops = HMQuiet.ops
  /\ pm_processor = PMState0.processor
  /\ pm_tasks = PMState0.tasks
  /\ pm_active = PMState0.active
  /\ pm_completed = PMState0.completed
  /\ pm_queue = PMState0.queue
  /\ pm_executing = PMState0.executing
  /\ pm_stats = PMState0.stats
  /\ pm_cancelled = PMState0.cancelled
  /\ pm_callbacks = PMState0.callbacks
  /\ rq_emm = RQQuiet.emm
  /\ rq_api = RQQuiet.api
  /\ rq_metrics = RQQuiet.metrics
  /\ rq_calls = RQQuiet.calls

ECInit ==
  /\ ec_engines = ECState0.engines
  /\ ec_call = ECState0.call
  /\ ec_metrics = ECState0.metrics
  /\ fm_cfg = FMQuiet.cfg
  /\ fm_loaded = FMQuiet.loaded
  /\ fm_calls = FMQuiet.calls
  /\ fm_events = FMQuiet.events
  /\ emm_env = EMMQuiet.env
  /\ emm_status = EMMQuiet.status
  /\ emm_err = EMMQuiet.err
  /\ emm_succ = EMMQuiet.succ
  /\ emm_loaded = EMMQuiet.loaded
  /\ emm_mon = EMMQuiet.mon
  /\ emm_calls = EMMQuiet.calls
  /\ ld_model_type = LDState0.model_type
  /\ ld_is_loaded = LDState0.is_loaded
  /\ ld_calls = LDState0.calls
  /\ ld_gguf = LDState0.gguf
  /\ mt_loaded = MTState0.loaded
  /\ mt_models = MTState0.models
  /\ mt_metrics = MTState0.metrics
  /\ mt_served = MTState0.served
  /\ mt_last = MTState0.last
  /\ api_cfg = APIQuiet.cfg
  /\ api_current = APIQuiet.current
  /\ api_calls = APIQuiet.calls
  /\ cl_error = CLState0({})
  /\ hm_env = HMQuiet.env
  /\ hm_task = HMQuiet.task
  /\ hm_tasks = HMQuiet.tasks
  /\ hm_status = HMQuiet.status
  /\ hm_ops = HMQuiet.ops
  /\ pm_processor = PMState0.processor
  /\ pm_tasks = PMState0.tasks
  /\ pm_active = PMState0.active
  /\ pm_completed = PMState0.completed
  /\ pm_queue = PMState0.queue
  /\ pm_executing = PMState0.executing
  /\ pm_stats = PMState0.stats
  /\ pm_cancelled = PMState0.cancelled
  /\ pm_callbacks = PMState0.callbacks
  /\ rq_emm = RQQuiet.emm
  /\ rq_api = RQQuiet.api
  /\ rq_metrics = RQQuiet.metrics
  /\ rq_calls = RQQuiet.calls

LDInit ==
  /\ ld_model_type = LDState0.model_type
  /\ ld_is_loaded = LDState0.is_loaded
  /\ ld_calls = LDState0.calls
  /\ ld_gguf = LDState0.gguf
  /\ fm_cfg = FMQuiet.cfg
  /\ fm_loaded = FMQuiet.loaded
  /\ fm_calls = FMQuiet.calls
  /\ fm_events = FMQuiet.events
  /\ emm_env = EMMQuiet.env
  /\ emm_status = EMMQuiet.status
  /\ emm_err = EMMQuiet.err
  /\ emm_succ = EMMQuiet.succ
  /\ emm_loaded = EMMQuiet.loaded
  /\ emm_mon = EMMQuiet.mon
  /\ emm_calls = EMMQuiet.calls
  /\ ec_engines = ECState0.engines
  /\ ec_call = ECState0.call
  /\ ec_metrics = ECState0.metrics
  /\ mt_loaded = MTState0.loaded
  /\ mt_models = MTState0.models
  /\ mt_metrics = MTState0.metrics
  /\ mt_served = MTState0.served
  /\ mt_last = MTState0.last
  /\ api_cfg = APIQuiet.cfg
  /\ api_current = APIQuiet.current
  /\ api_calls = APIQuiet.calls
  /\ cl_error = CLState0({})
  /\ hm_env = HMQuiet.env
  /\ hm_task = HMQuiet.task
  /\ hm_tasks = HMQuiet.tasks
  /\ hm_status = HMQuiet.status
  /\ hm_ops = HMQuiet.ops
  /\ pm_processor = PMState0.processor
  /\ pm_tasks = PMState0.tasks
  /\ pm_active = PMState0.active
  /\ pm_completed = PMState0.completed
  /\ pm_queue = PMState0.queue
  /\ pm_executing = PMState0.executing
  /\ pm_stats = PMState0.stats
  /\ pm_cancelled = PMState0.cancelled
  /\ pm_callbacks = PMState0.callbacks
  /\ rq_emm = RQQuiet.emm
  /\ rq_api = RQQuiet.api
  /\ rq_metrics = RQQuiet.metrics
  /\ rq_calls = RQQuiet.calls

MTInit ==
  /\ mt_loaded = MTState0.loaded
  /\ mt_models = MTState0.models
  /\ mt_metrics = MTState0.metrics
  /\ mt_served = MTState0.served
  /\ mt_last = MTState0.last
  /\ fm_cfg = FMQuiet.cfg
  /\ fm_loaded = FMQuiet.loaded
  /\ fm_calls = FMQuiet.calls
  /\ fm_events = FMQuiet.events
  /\ emm_env = EMMQuiet.env
  /\ emm_status = EMMQuiet.status
  /\ emm_err = EMMQuiet.err
  /\ emm_succ = EMMQuiet.succ
  /\ emm_loaded = EMMQuiet.loaded
  /\ emm_mon = EMMQuiet.mon
  /\ emm_calls = EMMQuiet.calls
  /\ ec_engines = ECState0.engines
  /\ ec_call = ECState0.call
  /\ ec_metrics = ECState0.metrics
  /\ ld_model_type = LDState0.model_type
  /\ ld_is_loaded = LDState0.is_loaded
  /\ ld_calls = LDState0.calls
  /\ ld_gguf = LDState0.gguf
  /\ api_cfg = APIQuiet.cfg
  /\ api_current = APIQuiet.current
  /\ api_calls = APIQuiet.calls
  /\ cl_error = CLState0({})
  /\ hm_env = HMQuiet.env
  /\ hm_task = HMQuiet.task
  /\ hm_tasks = HMQuiet.tasks
  /\ hm_status = HMQuiet.status
  /\ hm_ops = HMQuiet.ops
  /\ pm_processor = PMState0.processor
  /\ pm_tasks = PMState0.tasks
  /\ pm_active = PMState0.active
  /\ pm_completed = PMState0.completed
  /\ pm_queue = PMState0.queue
  /\ pm_executing = PMState0.executing
  /\ pm_stats = PMState0.stats
  /\ pm_cancelled = PMState0.cancelled
  /\ pm_callbacks = PMState0.callbacks
  /\ rq_emm = RQQuiet.emm
  /\ rq_api = RQQuiet.api
  /\ rq_metrics = RQQuiet.metrics
  /\ rq_calls = RQQuiet.calls

APIInit ==
  /\ \E cfg \in APIConfigs :
       /\ api_cfg = APIState0(cfg).cfg
       /\ api_current = APIState0(cfg).current
       /\ api_calls = APIState0(cfg).calls
  /\ fm_cfg = FMQuiet.cfg
  /\ fm_loaded = FMQuiet.loaded
  /\ fm_calls = FMQuiet.calls
  /\ fm_events = FMQuiet.events
  /\ emm_env = EMMQuiet.env
  /\ emm_status = EMMQuiet.status
  /\ emm_err = EMMQuiet.err
  /\ emm_succ = EMMQuiet.succ
  /\ emm_loaded = EMMQuiet.loaded
  /\ emm_mon = EMMQuiet.mon
  /\ emm_calls = EMMQuiet.calls
  /\ ec_engines = ECState0.engines
  /\ ec_call = ECState0.call
  /\ ec_metrics = ECState0.metrics
  /\ ld_model_type = LDState0.model_type
  /\ ld_is_loaded = LDState0.is_loaded
  /\ ld_calls = LDState0.calls
  /\ ld_gguf = LDState0.gguf
  /\ mt_loaded = MTState0.loaded
  /\ mt_models = MTState0.models
  /\ mt_metrics = MTState0.metrics
  /\ mt_served = MTState0.served
  /\ mt_last = MTState0.last
  /\ cl_error = CLState0({})
  /\ hm_env = HMQuiet.env
  /\ hm_task = HMQuiet.task
  /\ hm_tasks = HMQuiet.tasks
  /\ hm_status = HMQuiet.status
  /\ hm_ops = HMQuiet.ops
  /\ pm_processor = PMState0.processor
  /\ pm_tasks = PMState0.tasks
  /\ pm_active = PMState0.active
  /\ pm_completed = PMState0.completed
  /\ pm_queue = PMState0.queue
  /\ pm_executing = PMState0.executing
  /\ pm_stats = PMState0.stats
  /\ pm_cancelled = PMState0.cancelled
  /\ pm_callbacks = PMState0.callbacks
  /\ rq_emm = RQQuiet.emm
  /\ rq_api = RQQuiet.api
  /\ rq_metrics = RQQuiet.metrics
  /\ rq_calls = RQQuiet.calls

CLInit ==
  /\ \E msg \in {m \in SUBSET ErrorKeywords : Cardinality(m) <= CLMaxKeywords} :
       cl_error = CLState0(msg)
  /\ fm_cfg = FMQuiet.cfg
  /\ fm_loaded = FMQuiet.loaded
  /\ fm_calls = FMQuiet.calls
  /\ fm_events = FMQuiet.events
  /\ emm_env = EMMQuiet.env
  /\ emm_status = EMMQuiet.status
  /\ emm_err = EMMQuiet.err
  /\ emm_succ = EMMQuiet.succ
  /\ emm_loaded = EMMQuiet.loaded
  /\ emm_mon = EMMQuiet.mon
  /\ emm_calls = EMMQuiet.calls
  /\ ec_engines = ECState0.engines
  /\ ec_call = ECState0.call
  /\ ec_metrics = ECState0.metrics
  /\ ld_model_type = LDState0.model_type
  /\ ld_is_loaded = LDState0.is_loaded
  /\ ld_calls = LDState0.calls
  /\ ld_gguf = LDState0.gguf
  /\ mt_loaded = MTState0.loaded
  /\ mt_models = MTState0.models
  /\ mt_metrics = MTState0.metrics
  /\ mt_served = MTState0.served
  /\ mt_last = MTState0.last
  /\ api_cfg = APIQuiet.cfg
  /\ api_current = APIQuiet.current
  /\ api_calls = APIQuiet.calls
  /\ hm_env = HMQuiet.env
  /\ hm_task = HMQuiet.task
  /\ hm_tasks = HMQuiet.tasks
  /\ hm_status = HMQuiet.status
  /\ hm_ops = HMQuiet.ops
  /\ pm_processor = PMState0.processor
  /\ pm_tasks = PMState0.tasks
  /\ pm_active = PMState0.active
  /\ pm_completed = PMState0.completed
  /\ pm_queue = PMState0.queue
  /\ pm_executing = PMState0.executing
  /\ pm_stats = PMState0.stats
  /\ pm_cancelled = PMState0.cancelled
  /\ pm_callbacks = PMState0.callbacks
  /\ rq_emm = RQQuiet.emm
  /\ rq_api = RQQuiet.api
  /\ rq_metrics = RQQuiet.metrics
  /\ rq_calls = RQQuiet.calls

HMInit ==
  /\ \E env \in EMMEnvs :
       /\ hm_env = HMState0(env).env
       /\ hm_task = HMState0(env).task
       /\ hm_tasks = HMState0(env).tasks
       /\ hm_status = HMState0(env).status
       /\ hm_ops = HMState0(env).ops
  /\ fm_cfg = FMQuiet.cfg
  /\ fm_loaded = FMQuiet.loaded
  /\ fm_calls = FMQuiet.calls
  /\ fm_events = FMQuiet.events
  /\ emm_env = EMMQuiet.env
  /\ emm_status = EMMQuiet.status
  /\ emm_err = EMMQuiet.err
  /\ emm_succ = EMMQuiet.succ
  /\ emm_loaded = EMMQuiet.loaded
  /\ emm_mon = EMMQuiet.mon
  /\ emm_calls = EMMQuiet.calls
  /\ ec_engines = ECState0.engines
  /\ ec_call = ECState0.call
  /\ ec_metrics = ECState0.metrics
  /\ ld_model_type = LDState0.model_type
  /\ ld_is_loaded = LDState0.is_loaded
  /\ ld_calls = LDState0.calls
  /\ ld_gguf = LDState0.gguf
  /\ mt_loaded = MTState0.loaded
  /\ mt_models = MTState0.models
  /\ mt_metrics = MTState0.metrics
  /\ mt_served = MTState0.served
  /\ mt_last = MTState0.last
  /\ api_cfg = APIQuiet.cfg
  /\ api_current = APIQuiet.current
  /\ api_calls = APIQuiet.calls
  /\ cl_error = CLState0({})
  /\ pm_processor = PMState0.processor
  /\ pm_tasks = PMState0.tasks
  /\ pm_active = PMState0.active
  /\ pm_completed = PMState0.completed
  /\ pm_queue = PMState0.queue
  /\ pm_executing = PMState0.executing
  /\ pm_stats = PMState0.stats
  /\ pm_cancelled = PMState0.cancelled
  /\ pm_callbacks = PMState0.callbacks
  /\ rq_emm = RQQuiet.emm
  /\ rq_api = RQQuiet.api
  /\ rq_metrics = RQQuiet.metrics
  /\ rq_calls = RQQuiet.calls

PMInit ==
  /\ pm_processor = PMState0.processor
  /\ pm_tasks = PMState0.tasks
  /\ pm_active = PMState0.active
  /\ pm_completed = PMState0.completed
  /\ pm_queue = PMState0.queue
  /\ pm_executing = PMState0.executing
  /\ pm_stats = PMState0.stats
  /\ pm_cancelled = PMState0.cancelled
  /\ pm_callbacks = PMState0.callbacks
  /\ fm_cfg = FMQuiet.cfg
  /\ fm_loaded = FMQuiet.loaded
  /\ fm_calls = FMQuiet.calls
  /\ fm_events = FMQuiet.events
  /\ emm_env = EMMQuiet.env
  /\ emm_status = EMMQuiet.status
  /\ emm_err = EMMQuiet.err
  /\ emm_succ = EMMQuiet.succ
  /\ emm_loaded = EMMQuiet.loaded
  /\ emm_mon = EMMQuiet.mon
  /\ emm_calls = EMMQuiet.calls
  /\ ec_engines = ECState0.engines
  /\ ec_call = ECState0.call
  /\ ec_metrics = ECState0.metrics
  /\ ld_model_type = LDState0.model_type
  /\ ld_is_loaded = LDState0.is_loaded
  /\ ld_calls = LDState0.calls
  /\ ld_gguf = LDState0.gguf
  /\ mt_loaded = MTState0.loaded
  /\ mt_models = MTState0.models
  /\ mt_metrics = MTState0.metrics
  /\ mt_served = MTState0.served
  /\ mt_last = MTState0.last
  /\ api_cfg = APIQuiet.cfg
  /\ api_current = APIQuiet.current
  /\ api_calls = APIQuiet.calls
  /\ cl_error = CLState0({})
  /\ hm_env = HMQuiet.env
  /\ hm_task = HMQuiet.task
  /\ hm_tasks = HMQuiet.tasks
  /\ hm_status = HMQuiet.status
  /\ hm_ops = HMQuiet.ops
  /\ rq_emm = RQQuiet.emm
  /\ rq_api = RQQuiet.api
  /\ rq_metrics = RQQuiet.metrics
  /\ rq_calls = RQQuiet.calls

RQInit ==
  /\ \E s0 \in { RQState0("emm", env, RQQuiet.api.cfg) : env \in EMMEnvs }
              \cup { RQState0("api", RQQuiet.emm.env, cfg) : cfg \in APIConfigs } :
       /\ rq_emm = s0.emm
       /\ rq_api = s0.api
       /\ rq_metrics = s0.metrics
       /\ rq_calls = s0.calls
  /\ fm_cfg = FMQuiet.cfg
  /\ fm_loaded = FMQuiet.loaded
  /\ fm_calls = FMQuiet.calls
  /\ fm_events = FMQuiet.events
  /\ emm_env = EMMQuiet.env
  /\ emm_status = EMMQuiet.status
  /\ emm_err = EMMQuiet.err
  /\ emm_succ = EMMQuiet.succ
  /\ emm_loaded = EMMQuiet.loaded
  /\ emm_mon = EMMQuiet.mon
  /\ emm_calls = EMMQuiet.calls
  /\ ec_engines = ECState0.engines
  /\ ec_call = ECState0.call
  /\ ec_metrics = ECState0.metrics
  /\ ld_model_type = LDState0.model_type
  /\ ld_is_loaded = LDState0.is_loaded
  /\ ld_calls = LDState0.calls
  /\ ld_gguf = LDState0.gguf
  /\ mt_loaded = MTState0.loaded
  /\ mt_models = MTState0.models
  /\ mt_metrics = MTState0.metrics
  /\ mt_served = MTState0.served
  /\ mt_last = MTState0.last
  /\ api_cfg = APIQuiet.cfg
  /\ api_current = APIQuiet.current
  /\ api_calls = APIQuiet.calls
  /\ cl_error = CLState0({})
  /\ hm_env = HMQuiet.env
  /\ hm_task = HMQuiet.task
  /\ hm_tasks = HMQuiet.tasks
  /\ hm_status = HMQuiet.status
  /\ hm_ops = HMQuiet.ops
  /\ pm_processor = PMState0.processor
  /\ pm_tasks = PMState0.tasks
  /\ pm_active = PMState0.active
  /\ pm_completed = PMState0.completed
  /\ pm_queue = PMState0.queue
  /\ pm_executing = PMState0.executing
  /\ pm_stats = PMState0.stats
  /\ pm_cancelled = PMState0.cancelled
  /\ pm_callbacks = PMState0.callbacks

SpecFM == FMInit /\ [][FMNext]_vars

SpecEMM == EMMInit /\ [][EMMNext]_vars

\* What the event loop itself guarantees of a request: a submitted call
\* starts, and _generate_local, which only sleeps 0.5 s, returns.  The GGUF
\* and the cloud generators are awaited by _generate_with_model with no
\* timeout, so nothing makes them return.
EMMLoopFairness ==
  /\ WF_vars(\E c \in EMMCalls, r \in EMMRequests : EMMStart(c, r))
  /\ WF_vars(\E c \in EMMCalls : emm_calls[c].via = "local" /\ EMMGenerated(c, "ok"))

SpecEMMLive == EMMInit /\ [][EMMNext]_vars /\ EMMLoopFairness

\* Every generator that is awaited ends, with a response or an exception.
EMMBackendsAnswer ==
  \A c \in EMMCalls :
    WF_vars((\E o \in {"ok", "failed_response"} : EMMGenerated(c, o)) \/ EMMFailed(c))

SpecEMMAnswered == EMMInit /\ [][EMMNext]_vars /\ EMMBackendsAnswer

SpecEC == ECInit /\ [][ECNext]_vars

SpecLD == LDInit /\ [][LDNext]_vars

SpecMT == MTInit /\ [][MTNext]_vars

SpecAPI == APIInit /\ [][APINext]_vars

SpecCL == CLInit /\ [][CLClassify]_vars

SpecHM == HMInit /\ [][HMNext]_vars

SpecPM == PMInit /\ [][PMNext]_vars

SpecRQ == RQInit /\ [][RQNext]_vars

\* The event loop runs every task that is ready: the processor keeps
\* turning while it exists, and the reasoning awaited by _execute_task ends,
\* at the latest by the timeout of wait_for.
PMFairness ==
  /\ WF_vars(PMProcess)
  /\ \A id \in PMIds : WF_vars(\E o \in PMOutcomes : PMExecuted(id, o))

SpecPMLive == PMInit /\ [][PMNext]_vars /\ PMFairness

(***************************************************************************)
(* Properties of LLMFallbackManager (SpecFM).                              *)
(***************************************************************************)
\* The backends the manager knows: local models, API fallbacks, the CPU model.
FMBackends(cfg) ==
  Range(cfg.local_models) \cup Range(cfg.secondary) \cup {CpuModel}
    \cup (IF cfg.primary # NoModel THEN {cfg.primary} ELSE {})

\* The call went through the fallback path: its primary attempt failed.
FMPrimaryFailed(f) ==
  f.pc \in {"fallback", "done"} /\ Len(f.tried) >= 1 /\ ~f.tried[1].ok

\* Every attempt of the call failed and none is left.
FMAllFailed(f) ==
  /\ f.pc = "done"
  /\ Len(f.tried) = 1 + Len(f.chain)
  /\ \A i \in 1..Len(f.tried) : ~f.tried[i].ok

\* C1: in a call whose primary failed, the fallback attempts are pairwise
\* distinct, none of them is the failed primary, and there are at most N of
\* them, N the number of the other backends.
C1_FallbackAttemptsDistinct ==
  \A c \in FMCalls :
    LET f  == fm_calls[c]
        fb == Tail(f.tried)
    IN  FMPrimaryFailed(f) =>
          /\ NoDup([i \in 1..Len(fb) |-> fb[i].m])
          /\ \A i \in 1..Len(fb) : fb[i].m # f.model
          /\ Len(fb) <= Cardinality(FMBackends(fm_cfg) \ {f.model})

\* C2: once the primary and every fallback candidate have failed, the policy
\* "degrade" returns a result marked degraded, and any other policy raises
\* and returns no content.
C2_TerminalPolicy ==
  \A c \in FMCalls :
    LET f == fm_calls[c]
    IN  FMAllFailed(f) =>
          IF fm_cfg.policy = "degrade"
            THEN f.result.how = "returned" /\ f.result.degraded
                 /\ f.result.model = "degraded"
            ELSE f.result.how = "raised" /\ f.result.content = NoContent

C2_Witness ==
  \E c \in FMCalls :
    /\ FMAllFailed(fm_calls[c])
    /\ fm_cfg.policy = "degrade"
    /\ Len(fm_calls[c].tried) >= 3

\* C5: a result returned without the degraded mark carries the output of a
\* backend invocation of this call that completed successfully.
C5_NoFabricatedSuccess ==
  \A c \in FMCalls :
    LET f == fm_calls[c]
    IN  (f.pc = "done" /\ f.result.how = "returned" /\ ~f.result.degraded) =>
          /\ f.result.content.src \in {"backend", "local_stub"}
          /\ \E i \in 1..Len(f.tried) : f.tried[i].ok /\ f.tried[i].m = f.result.model

\* C9: when the attempt on the selected backend times out and a later
\* candidate is the first to succeed, the result names that candidate, with
\* fallback_used set and the reason "timeout".
C9_TimeoutFallsBack ==
  \A c \in FMCalls :
    LET f == fm_calls[c]
        n == Len(f.tried)
    IN  (f.pc = "done" /\ n >= 2 /\ f.tried[1].timed_out /\ f.tried[n].ok) =>
          /\ f.result.how = "returned"
          /\ f.result.model = f.tried[n].m
          /\ f.result.fallback_used
          /\ f.result.fallback_reason = "timeout"
          /\ f.tried[2].m = f.chain[1]

C9_Witness ==
  \E c \in FMCalls :
    LET f == fm_calls[c]
    IN  /\ f.pc = "done" /\ Len(f.tried) = 2
        /\ f.model = CpuModel /\ f.tried[1].timed_out /\ f.tried[2].ok
        /\ f.result.model = "gpt-4o-mini"

\* A local model of the configuration: one of local_models, or the
\* CPU-optimized model.
FMIsLocal(cfg, m) == InSeq(m, cfg.local_models) \/ m = CpuModel

\* The place of m in the configured order: the primary API fallback, the
\* secondary ones, the local models, the CPU-optimized model.
FMConfiguredRank(cfg, m) ==
  LET order == Dedup((IF cfg.primary # NoModel THEN <<cfg.primary>> ELSE <<>>)
                     \o cfg.secondary \o cfg.local_models \o <<CpuModel>>)
  IN  CHOOSE i \in 1..Len(order) : order[i] = m

\* The calls that run with fallback and have built their chain.
FMChained == {c \in FMCalls : fm_cfg.enabled /\ fm_calls[c].pc # "idle"}

FMEndsAfterPrimaryFailed(c) ==
  /\ fm_calls[c].pc # "done"
  /\ fm_calls'[c].pc = "done"
  /\ FMPrimaryFailed(fm_calls'[c])

EMMSelects(c) == Len(emm_calls'[c].sels) = Len(emm_calls[c].sels) + 1

\* The request and the result of the selection that step made.
EMMSelection(c) == emm_calls'[c].sels[Len(emm_calls'[c].sels)]

\* The host cannot run m: memory_requirement above the host's RAM, or
\* gpu_requirement without a GPU.
HardwareExcludes(m, env) ==
  \/ memory_requirement(m) > env.ram_mb
  \/ gpu_requirement(m) /\ ~env.has_gpu

\* The request's constraints exclude m: force_local with a local model
\* available and m a cloud model, a cost limit below m's cost, the hardware.
ConstraintsExclude(status, env, request, m) ==
  \/ /\ request.force_local /\ ~IsLocal(m)
     /\ \E l \in EMMModels : IsLocal(l) /\ status[l] = "available"
  \/ /\ request.cost_limit # 0
     /\ cost_per_token(m) * request.max_tokens > request.cost_limit * 1000
  \/ HardwareExcludes(m, env)

\* The request names a model that is registered and available.
NamesAvailableModel(status, request) ==
  /\ request.model_preference \in EMMModels
  /\ status[request.model_preference] = "available"

\* For A and B available with A of the lower priority number and A not
\* excluded, the selection is not B, and it is A when no available model has
\* a lower priority number than A.
PriorityRespected(status, env, request, result) ==
  \A A, B \in EMMModels :
    ( /\ status[A] = "available" /\ status[B] = "available"
      /\ priority(A) < priority(B)
      /\ ~ConstraintsExclude(status, env, request, A) ) =>
        /\ result # B
        /\ (\A X \in EMMModels : status[X] = "available" => priority(A) <= priority(X))
             => result = A

\* C3: in every step in which _select_model returns a model, under every
\* interleaving with the health monitor, that model's status is "available"
\* in the state the selection returns in.
C3_SelectedIsAvailable ==
  [][\A c \in EMMCalls :
       (EMMSelects(c) /\ EMMSelection(c).result # NoModel) =>
          emm_status'[EMMSelection(c).result] = "available"]_vars

C3_Witness ==
  \E c \in EMMCalls :
    LET s == emm_calls[c].sels
    IN  /\ Len(s) = 2 /\ emm_mon.checks >= 3
        /\ s[1].request.model_preference = "auto"
        /\ s[1].result = "openai-gpt4"
        /\ s[2].result = "deepseek-r1"

\* C4 as stated: for A and B available with A.priority < B.priority and a
\* request whose constraints do not exclude A, the selection returns A and
\* never B.
C4_PriorityAlways ==
  [][\A c \in EMMCalls :
       EMMSelects(c) =>
         PriorityRespected(emm_status, emm_env, EMMSelection(c).request,
                           EMMSelection(c).result)]_vars

\* C4, amended: the same, for requests that name no available model.
C4_PriorityUnlessNamed ==
  [][\A c \in EMMCalls :
       (EMMSelects(c) /\ ~NamesAvailableModel(emm_status, EMMSelection(c).request)) =>
         PriorityRespected(emm_status, emm_env, EMMSelection(c).request,
                           EMMSelection(c).result)]_vars

C4_Witness ==
  \E c \in EMMCalls :
    LET s == emm_calls[c].sels
    IN  /\ Len(s) = 1 /\ emm_calls[c].pc = "generating"
        /\ s[1].request.model_preference = "auto"
        /\ s[1].request.cost_limit # 0
        /\ s[1].result = "anthropic-claude"
        /\ emm_status["openai-gpt4"] = "available"
        /\ emm_status["deepseek-r1"] # "available"

\* C10: a model whose memory_requirement exceeds the host's RAM, or which
\* needs a GPU the host does not have, is never the model a call has selected.
C10_HardwareGate ==
  \A c \in EMMCalls :
    emm_calls[c].pc = "generating" => ~HardwareExcludes(emm_calls[c].selected, emm_env)

\* C11: a step of request handling (selection, a generation that returned,
\* a generation that raised, the fallback) leaves every model's status as it
\* was; the status changes only in steps of the health monitor and of
\* initialize_gguf_models.
C11_RequestsLeaveStatus ==
  [][emm_calls' # emm_calls => emm_status' = emm_status]_vars

\* A call has ended in the failure of the model it selected, and that model
\* is still available.
C11_Witness ==
  \E c \in EMMCalls :
    /\ emm_calls[c].pc = "done"
    /\ emm_calls[c].result.success = FALSE
    /\ Len(emm_calls[c].tried) > 0
    /\ LET t == emm_calls[c].tried[Len(emm_calls[c].tried)]
       IN  ~t.ok /\ emm_status[t.m] = "available" /\ emm_err[t.m] > 0

\* The models a call has attempted.
EMMTried(f) == {f.tried[i].m : i \in 1..Len(f.tried)}

\* Call c ends in this step with a failure.
EMMEndsInFailure(c) ==
  /\ emm_calls[c].pc # "done"
  /\ emm_calls'[c].pc = "done"
  /\ ~emm_calls'[c].result.success

\* C15: a call whose request allows fallback ends in a failure only when
\* every model that is available at that moment has been attempted by it.
C15_FailureAfterAllAvailableTried ==
  [][\A c \in EMMCalls :
       (EMMEndsInFailure(c) /\ emm_calls'[c].sels[1].request.fallback_allowed) =>
         \A m \in EMMModels :
           emm_status[m] = "available" => m \in EMMTried(emm_calls'[c])]_vars

\* C17: a call whose request does not allow fallback and whose selected
\* model failed has attempted that model only, and returns the failure of
\* that model: success false, model_used the selected model, fallback_used
\* false.
C17_NoFallbackWhenDisallowed ==
  \A c \in EMMCalls :
    LET f == emm_calls[c]
    IN  (/\ f.pc = "done"
         /\ ~f.sels[1].request.fallback_allowed
         /\ Len(f.tried) >= 1
         /\ ~f.tried[1].ok) =>
          /\ Len(f.tried) = 1
          /\ Len(f.sels) = 1
          /\ f.result.how = "returned"
          /\ ~f.result.success
          /\ f.result.model_used = f.tried[1].m
          /\ ~f.result.fallback_used

\* A call that does not allow fallback has ended with the failure of a cloud
\* model that raised, while a model it did not attempt is available.
C17_Witness ==
  \E c \in EMMCalls :
    LET f == emm_calls[c]
    IN  /\ f.pc = "done"
        /\ ~f.sels[1].request.fallback_allowed
        /\ Len(f.tried) = 1
        /\ ~f.tried[1].ok
        /\ ~IsLocal(f.tried[1].m)
        /\ \E m \in EMMModels : m # f.tried[1].m /\ emm_status[m] = "available"

\* C21: every call of generate_response that awaits a generator ends, whether
\* or not the backend ever answers.
C21_GenerateTerminates ==
  \A c \in EMMCalls : (emm_calls[c].pc = "generating") ~> (emm_calls[c].pc = "done")

\* The cost _select_model estimates for m exceeds the request's cost limit.
OverCostLimit(request, m) ==
  cost_per_token(m) * request.max_tokens > request.cost_limit * 1000

\* C22: a selection for a request with a cost limit that names no available
\* model never returns a model whose estimated cost exceeds the limit.
C22_CostLimitRespected ==
  [][\A c \in EMMCalls :
       ( /\ EMMSelects(c)
         /\ EMMSelection(c).request.cost_limit # 0
         /\ ~NamesAvailableModel(emm_status, EMMSelection(c).request)
         /\ EMMSelection(c).result # NoModel ) =>
           ~OverCostLimit(EMMSelection(c).request, EMMSelection(c).result)]_vars

C24_NamedPreference ==
  [][\A c \in EMMCalls :
       EMMSelects(c) =>
         LET s == EMMSelection(c)
         IN  IF NamesAvailableModel(emm_status, s.request)
               THEN s.result = s.request.model_preference
               ELSE s.result =
                      _select_model(emm_status,
                                    [s.request EXCEPT !.model_preference = "auto"])]_vars

C24_Witness ==
  \E c \in EMMCalls :
    /\ emm_calls[c].pc = "generating"
    /\ emm_calls[c].depth = 0
    /\ emm_calls[c].request = EMMRequest("openai-gpt4", TRUE, TRUE, 20)
    /\ emm_calls[c].selected = "openai-gpt4"
    /\ emm_status["deepseek-r1"] = "available"
    /\ emm_status["anthropic-claude"] = "available"

\* A local model is available.
LocalAvailable(status) == \E l \in EMMModels : IsLocal(l) /\ status[l] = "available"

\* With force_local the selection is a local model when one is available,
\* and what the same request without force_local selects when none is.
ForceLocalHonoured(status, request, result) ==
  request.force_local =>
    IF LocalAvailable(status)
      THEN result # NoModel /\ IsLocal(result)
      ELSE result = _select_model(status, [request EXCEPT !.force_local = FALSE])

\* C25 as stated: every selection honours force_local.
C25_ForceLocalAlways ==
  [][\A c \in EMMCalls :
       EMMSelects(c) =>
         ForceLocalHonoured(emm_status, EMMSelection(c).request,
                            EMMSelection(c).result)]_vars

\* C25, amended: every selection for a request that names no available model
\* honours force_local.
C25_ForceLocalUnlessNamed ==
  [][\A c \in EMMCalls :
       (EMMSelects(c) /\ ~NamesAvailableModel(emm_status, EMMSelection(c).request)) =>
         ForceLocalHonoured(emm_status, EMMSelection(c).request,
                            EMMSelection(c).result)]_vars

C25_Witness ==
  \E c \in EMMCalls :
    /\ emm_calls[c].pc = "generating"
    /\ emm_calls[c].depth = 0
    /\ emm_calls[c].request.model_preference = "auto"
    /\ emm_calls[c].request.force_local
    /\ emm_calls[c].selected = "llama"
    /\ emm_status["llama"] = "available"
    /\ emm_status["deepseek-r1"] # "available"
    /\ emm_status["openai-gpt4"] = "available"

\* C26: a health check that met an error, raised out of the check or caught
\* inside it, leaves the model with status "error" and its error_count one
\* higher; a check that met none leaves every error_count as it was.
C26_CheckErrorCounted ==
  [][\A o \in CheckResults :
       EMMHealthCheck(o) =>
         LET m == EMMOrder[emm_mon.pos]
         IN  IF o \in {"raise", "probe_error"}
               THEN emm_status'[m] = "error" /\ emm_err'[m] = emm_err[m] + 1
               ELSE emm_err' = emm_err]_vars

\* The calls whose attempt on model m ended in this step, with success ok.
AttemptsEnded(m, ok) ==
  {c \in EMMCalls :
     /\ Len(emm_calls'[c].tried) = Len(emm_calls[c].tried) + 1
     /\ emm_calls'[c].tried[Len(emm_calls'[c].tried)] = [m |-> m, ok |-> ok]}

\* C28: in every step, whatever calls and health checks are under way, each
\* model's success_count grows by the number of successful attempts that
\* ended in the step, and its error_count by the number of failed attempts
\* that ended in it plus one if a health check of the model failed in it.
C28_EveryAttemptCounted ==
  [][\A m \in EMMModels :
       /\ emm_succ'[m] = emm_succ[m] + Cardinality(AttemptsEnded(m, TRUE))
       /\ emm_err'[m] = emm_err[m] + Cardinality(AttemptsEnded(m, FALSE))
            + (IF EMMHealthCheck("raise") /\ EMMOrder[emm_mon.pos] = m THEN 1 ELSE 0)]_vars

\* The recursion of call c is bounded: generate_response was entered at most
\* twice, the second time with a request that allows no fallback, and at
\* most two generators were awaited.
EMMFallbackBounded(c) ==
  LET f == emm_calls[c]
  IN  /\ f.depth <= 1
      /\ Len(f.sels) <= 2
      /\ Len(f.tried) <= 2
      /\ f.depth = 1 => ~f.request.fallback_allowed
      /\ f.pc = "done" => f.result.how = "returned"

FailedCount(engine_responses) ==
  Cardinality({i \in 1..Len(engine_responses) : ~engine_responses[i].success})

\* C6: a parallel call whose tasks have all ended returns one response per
\* task, in task order: a successful one for every engine that succeeded, a
\* failed one for every engine that raised; and success is true when at
\* least one engine succeeded.
C6_ParallelIsolation ==
  LET f == ec_call
  IN  (f.pc = "done" /\ f.request.strategy = "parallel" /\ Len(f.tasks) > 0) =>
        /\ f.result.how = "returned"
        /\ Len(f.result.engine_responses) = Len(f.tasks)
        /\ \A i \in 1..Len(f.tasks) :
             /\ f.result.engine_responses[i].engine_type = f.tasks[i].engine
             /\ f.result.engine_responses[i].success = (f.tasks[i].outcome # "raise")
        /\ (\E i \in 1..Len(f.tasks) : f.tasks[i].outcome # "raise") => f.result.success

C6_Witness ==
  LET f == ec_call
  IN  /\ f.pc = "done" /\ f.request.strategy = "parallel" /\ Len(f.tasks) = 2
      /\ f.tasks[1].outcome = "raise" /\ f.tasks[2].outcome = "ok"
      /\ f.result.how = "returned" /\ f.result.success

\* C7: in every response execute_coordinated_task returns, success is true
\* exactly when some engine response in engine_responses is successful.
C7_SuccessIffAnyEngine ==
  (ec_call.pc = "done" /\ ec_call.result.how = "returned") =>
    (ec_call.result.success <=>
       \E i \in 1..Len(ec_call.result.engine_responses) :
          ec_call.result.engine_responses[i].success)

C7_Witness ==
  /\ ec_call.pc = "done" /\ ec_call.request.strategy = "adaptive"
  /\ ec_call.result.how = "returned" /\ ec_call.result.success
  /\ FailedCount(ec_call.result.engine_responses) = 1
  /\ Len(ec_call.result.engine_responses) = 2

\* What C8 says of every sequential call: a failed engine has a failed
\* response, the engines after it still run, in order, and the engine after
\* a failed one is called with the data the failed one was called with.
SequentialContinues ==
  LET f == ec_call
  IN  (f.request.strategy = "sequential" /\ Len(f.responses) > 0) =>
        /\ \A i \in 1..Len(f.responses) :
             /\ f.responses[i].engine_type = f.request.required_engines[i]
             /\ (~f.responses[i].success /\ i < Len(f.responses)) =>
                   f.responses[i + 1].data_in = f.responses[i].data_in
        /\ f.pc = "done" => Len(f.responses) = Len(f.request.required_engines)

\* The call is the sequential one over [Recall, Creative], has returned, and
\* Recall failed.
RecallFailedThenCreative ==
  /\ ec_call.pc = "done" /\ ec_call.request.strategy = "sequential"
  /\ ec_call.request.required_engines = <<"perfect_recall", "creative">>
  /\ Len(ec_call.responses) = 2
  /\ ~ec_call.responses[1].success

OneFailedAndSuccess ==
  /\ ec_call.result.how = "returned"
  /\ ec_call.result.success
  /\ FailedCount(ec_call.result.engine_responses) = 1

\* C8 as stated: SequentialContinues, and with required engines
\* [Recall, Creative] and Recall failing the response has success = true and
\* exactly one failed engine response.
C8_SequentialAsStated ==
  SequentialContinues /\ (RecallFailedThenCreative => OneFailedAndSuccess)

\* C8, amended: the same, the response having success = true and exactly one
\* failed engine response when Recall fails and Creative succeeds.
C8_SequentialContinues ==
  /\ SequentialContinues
  /\ (RecallFailedThenCreative /\ ec_call.responses[2].success) => OneFailedAndSuccess

C8_Witness ==
  /\ RecallFailedThenCreative
  /\ ec_call.responses[2].success
  /\ ec_call.responses[2].data_in = InputData
  /\ OneFailedAndSuccess

\* C29: in a parallel call, the input a task runs on shows no change made by
\* the engine of another task, and the call has returned (synthesis has run)
\* only if every task created has ended.
C29_IndependentInputs ==
  /\ ec_call.pc = "parallel" =>
       \A i \in 1..Len(ec_call.tasks) :
         task_input_writes(ec_call, i) \subseteq {ec_call.tasks[i].engine}
  /\ (ec_call.pc = "done" /\ ec_call.request.strategy = "parallel") =>
       \A i \in 1..Len(ec_call.tasks) : ec_call.tasks[i].state = "done"

\* The plan steps whose engine _execute_adaptive has started: those that
\* have answered and the one it awaits.
ECStarted(f) == 1..f.idx

\* C30: while _execute_adaptive awaits the engine of a step of mode
\* "parallel", the engine of every other step of mode "parallel" has been
\* started as well, and every response of such a step was computed on the
\* input data of the request, without the result of another engine.
C30_ParallelStepsOverlap ==
  ec_call.pc = "adaptive" =>
    /\ \A j \in 1..Len(ec_call.plan) :
         ( /\ ec_call.idx \in 1..Len(ec_call.plan)
           /\ ec_call.plan[ec_call.idx].mode = "parallel"
           /\ ec_call.plan[j].mode = "parallel" ) => j \in ECStarted(ec_call)
    /\ \A k \in 1..Len(ec_call.responses) :
         ec_call.plan[k].mode = "parallel" => ec_call.responses[k].data_in = InputData

\* The call runs _execute_adaptive: its strategy is no key of
\* coordination_strategies other than "adaptive".
ECRunsAdaptive(f) ==
  f.pc \in {"adaptive", "done"} /\ f.request.strategy \notin {"sequential", "parallel"}

\* Each response was computed on the input data with the keys of the
\* successful responses before it, and on nothing else: the engines ran one
\* after the other, each on what the ones before it had added.
ECChained(responses) ==
  \A k \in 1..Len(responses) :
    responses[k].data_in =
      [InputData EXCEPT !.keys =
         {EnhancementKey(responses[j].engine_type) :
            j \in {i \in 1..(k - 1) : responses[i].success}}]

\* Position of the engine in the order Recall, Parallel, Creative.
ECFixedRank(engine) ==
  CASE engine = "perfect_recall" -> 1 [] engine = "parallel_mind" -> 2
    [] engine = "creative" -> 3

\* The responses come in the order Recall, Parallel, Creative.
ECFixedOrder(responses) ==
  \A k, l \in 1..Len(responses) :
    k < l => ECFixedRank(responses[k].engine_type) < ECFixedRank(responses[l].engine_type)

\* C31 as stated: an adaptive call of complexity score above 0.7 runs its
\* engines in the order Recall, Parallel, Creative, each on the data the
\* successful ones before it have enhanced.
C31_HighComplexityChain ==
  (ECRunsAdaptive(ec_call) /\ ec_call.request.enterprise) =>
     ECFixedOrder(ec_call.responses) /\ ECChained(ec_call.responses)

\* C31, amended: the same, for input data that is a dict.
C31_HighComplexityChainOverDict ==
  (ECRunsAdaptive(ec_call) /\ ec_call.request.enterprise /\ ec_call.request.is_dict) =>
     ECFixedOrder(ec_call.responses) /\ ECChained(ec_call.responses)

C31_Witness ==
  /\ ec_call.pc = "done"
  /\ ec_call.request.strategy = "adaptive"
  /\ ec_call.request.enterprise /\ ec_call.request.is_dict
  /\ ec_call.request.required_engines = <<"parallel_mind", "perfect_recall">>
  /\ Len(ec_call.responses) = 2
  /\ ec_call.responses[1].engine_type = "perfect_recall"
  /\ ec_call.responses[1].success
  /\ ec_call.responses[2].data_in.keys = {"retrieved_context"}

\* The call runs the default branch of the plan: complexity score not above
\* 0.7, and not both parallelism and creativity found.
ECDefaultBranch(f) ==
  /\ ECRunsAdaptive(f)
  /\ ~f.request.enterprise
  /\ ~(f.request.parallel /\ f.request.creativity)

\* The responses are those of the required engines of engine_priorities, in
\* that order, which is the order of descending weight (0.9 Recall, 0.8
\* Parallel, 0.7 Creative); all of them once the call is done.
ECPriorityOrder(f) ==
  LET pr == _analyze_task_for_optimal_engines(f.request).engine_priorities
      expected == SelectSeq(pr, LAMBDA e : InSeq(e, f.request.required_engines))
  IN  /\ Len(f.responses) <= Len(expected)
      /\ \A k \in 1..Len(f.responses) : f.responses[k].engine_type = expected[k]
      /\ f.pc = "done" => Len(f.responses) = Len(expected)
      /\ ECFixedOrder(f.responses)

\* C32 as stated: a call in the default branch runs its engines in the order
\* of engine_priorities, each on the data the successful ones before it have
\* enhanced.
C32_DefaultChain ==
  ECDefaultBranch(ec_call) => ECPriorityOrder(ec_call) /\ ECChained(ec_call.responses)

\* C32, amended: the same, for input data that is a dict.
C32_DefaultChainOverDict ==
  (ECDefaultBranch(ec_call) /\ ec_call.request.is_dict) =>
     ECPriorityOrder(ec_call) /\ ECChained(ec_call.responses)

C32_Witness ==
  /\ ec_call.pc = "done"
  /\ ECDefaultBranch(ec_call) /\ ec_call.request.is_dict
  /\ ec_call.request.memory /\ ec_call.request.creativity
  /\ ec_call.request.required_engines = <<"creative", "perfect_recall">>
  /\ Len(ec_call.responses) = 2
  /\ ec_call.responses[1].engine_type = "perfect_recall"
  /\ ec_call.responses[1].success
  /\ ec_call.responses[2].engine_type = "creative"
  /\ ec_call.responses[2].data_in.keys = {"retrieved_context"}

\* C33: a call that has ended has returned a response, never raised, and the
\* response reports "All engines failed" exactly when no engine succeeded.
C33_FailuresConfined ==
  ec_call.pc = "done" =>
    /\ ec_call.result.how = "returned"
    /\ (ec_call.result.primary_result = "All engines failed")
         <=> ~coordinated_success(ec_call.responses)
    /\ ec_call.result.engine_responses = ec_call.responses

ECResponders(responses) == [i \in 1..Len(responses) |-> responses[i].engine_type]

\* The call of the next state has just ended, and its required engines are
\* distinct and were all registered while it ran.
ECEndsFullyRegistered ==
  /\ ec_call.pc # "done"
  /\ ec_call'.pc = "done"
  /\ NoDup(ec_call'.request.required_engines)
  /\ Range(ec_call'.request.required_engines) \subseteq ec_engines

\* C35: whatever the strategy, a call whose required engines are distinct and
\* registered ends with exactly one response for each required engine and
\* none for another engine.
C35_OneResponsePerRequired ==
  [][ECEndsFullyRegistered =>
       /\ NoDup(ECResponders(ec_call'.responses))
       /\ Range(ECResponders(ec_call'.responses))
            = Range(ec_call'.request.required_engines)]_vars

\* C36: a call whose strategy produced no engine response at all returns a
\* CoordinatedResponse with success false; it does not end in an error.
C36_NoResponsesReturnsFailure ==
  (ec_call.pc = "done" /\ ec_call.responses = <<>>) =>
    /\ ec_call.result.how = "returned"
    /\ ~ec_call.result.success

(***************************************************************************)
(* Properties of loading and unloading (SpecLD).                           *)
(***************************************************************************)
\* The callers whose load of the model is in flight.
LoadsInFlight == {c \in LDCalls : ld_calls[c].pc = "loading"}

\* C12: at no time are two loads of the same model in flight, whatever the
\* interleaving of the callers, lazy loads of concurrent generate_code calls
\* included.
C12_OneLoadInFlight == Cardinality(LoadsInFlight) <= 1

(***************************************************************************)
(* Properties of the reported cost and of the metrics (SpecMT).            *)
(***************************************************************************)
\* C13: a response served by a local model reports cost 0, and a response
\* served by a cloud model reports tokens_used * cost_per_token / 1000.
C13_ReportedCost ==
  mt_last.model_used # "none" =>
    mt_last.cost = IF IsLocal(mt_last.model_used)
                     THEN 0
                     ELSE mt_last.tokens_used * cost_per_token(mt_last.model_used)

\* A cloud model has served a response with tokens, at a cost above 0, after
\* a local model served one.
C13_Witness ==
  /\ mt_last.model_used = "openai-gpt4"
  /\ mt_last.success
  /\ mt_last.tokens_used > 0
  /\ mt_last.cost > 0
  /\ \E m \in EMMModels : IsLocal(m) /\ mt_served[m].k > 0

\* C14: for every model, success_count is the number k of successful
\* responses it served, and when k > 0 average_response_time is the mean of
\* their response times, whatever failed calls came in between.
C14_SuccessCountAndMean ==
  \A m \in EMMModels :
    /\ mt_models[m].success_count = mt_served[m].k
    /\ mt_served[m].k > 0 =>
         mt_models[m].avg.num * mt_served[m].k = mt_served[m].sum * mt_models[m].avg.den

(***************************************************************************)
(* Properties of APILLMManager (SpecAPI).                                  *)
(***************************************************************************)
\* Call c ends in this step with the success of the fallback model it was
\* attempting.
APIFallbackSucceeds(c) ==
  /\ api_calls[c].pc = "fallback"
  /\ api_calls'[c].pc = "done"
  /\ api_calls'[c].how = "fallback_ok"

\* C19: the step in which a fallback model succeeds makes that model the
\* current model; no other step changes the current model (not the success
\* of the primary attempt, not a failure, not the end of a call in which
\* every model failed); and a call that starts while there is a current
\* model attempts the current model first.
C19_FallbackBecomesCurrent ==
  [][/\ \A c \in 1..APIMaxCalls :
          APIFallbackSucceeds(c) => api_current' = api_calls[c].model
     /\ api_current' # api_current =>
          \E c \in 1..APIMaxCalls :
            APIFallbackSucceeds(c) /\ api_current' = api_calls[c].model
     /\ \A c \in 1..APIMaxCalls :
          (api_calls[c].pc = "idle" /\ api_calls'[c].pc # "idle" /\ api_current # NoModel) =>
            (api_calls'[c].pc = "primary" /\ api_calls'[c].model = api_current)]_vars

\* A fallback has replaced the model chosen by initialize, and a later call
\* is attempting the new current model as its primary.
C19_Witness ==
  /\ api_current # _select_optimal_model(api_cfg)
  /\ \E c \in 1..APIMaxCalls :
       api_calls[c].pc = "primary" /\ api_calls[c].model = api_current

(***************************************************************************)
(* Properties of the error classification (SpecCL).                        *)
(***************************************************************************)
\* The signals of a message, as the classifier reads them.
Signal(msg, category) ==
  CASE category = "timeout"        -> "time" \in msg /\ ("out" \in msg \/ "exceed" \in msg)
    [] category = "rate_limit"     -> "rate" \in msg /\ "limit" \in msg
    [] category = "content_policy" -> msg \cap {"content", "policy", "moderation"} # {}
    [] category = "low_resources"  -> msg \cap {"resource", "memory", "capacity"} # {}
    [] category = "cost_limit"     -> msg \cap {"cost", "billing", "quota"} # {}

\* The reason of a classified message is the first category of order whose
\* signal the message carries, and otherwise one of rest.
ClassifiedInOrder(order, rest) ==
  cl_error.reason # "none" =>
    /\ cl_error.reason \in FallbackReason
    /\ \A i \in 1..Len(order) :
         (Signal(cl_error.msg, order[i]) /\ \A j \in 1..(i - 1) : ~Signal(cl_error.msg, order[j]))
           => cl_error.reason = order[i]
    /\ (\A i \in 1..Len(order) : ~Signal(cl_error.msg, order[i])) => cl_error.reason \in rest

\* C20 as stated: timeout, rate limit, content policy, low resources in that
\* order, and any other message is an api_error or a system_error.
C20_FourCategories ==
  ClassifiedInOrder(<<"timeout", "rate_limit", "content_policy", "low_resources">>,
                    {"api_error", "system_error"})

\* C20, amended: every message gets exactly one reason; timeout, rate limit,
\* content policy, low resources, cost limit in that order, the first
\* signal present winning, and any other message is an api_error.
C20_FiveCategories ==
  ClassifiedInOrder(<<"timeout", "rate_limit", "content_policy", "low_resources", "cost_limit">>,
                    {"api_error"})

\* A message with the signals of a timeout, of a rate limit and nothing else
\* has been classified as a timeout.
C20_Witness ==
  /\ cl_error.reason = "timeout"
  /\ Signal(cl_error.msg, "timeout")
  /\ Signal(cl_error.msg, "rate_limit")

(***************************************************************************)
(* Properties of the health monitor task (SpecHM).                         *)
(***************************************************************************)
\* The tasks that have not ended and have no cancellation on its way.
HMLive == {t \in HMTasks : hm_tasks[t].state = "pending" /\ ~hm_tasks[t].must_cancel}

\* C27: at most one monitor task that nobody has just cancelled is alive,
\* whatever calls of start, stop and shutdown were made, and no task writes a
\* status once it was cancelled.
C27_OneMonitorTask ==
  /\ Cardinality(HMLive) <= 1
  /\ \A t \in HMTasks : hm_tasks[t].late = 0

(***************************************************************************)
(* Properties of ParallelMindEngine (SpecPM, SpecPMLive).                  *)
(***************************************************************************)
\* Task id was submitted, the processor exists, and every dependency of the
\* task is in completed_tasks.
PMReady(id) ==
  /\ pm_processor
  /\ id \in 1..Len(pm_tasks)
  /\ _check_dependencies(pm_completed, pm_tasks[id])

\* C37: with the processor running, every submitted task whose dependencies
\* are completed is eventually in completed_tasks, however many tasks were
\* submitted before one finished; a processor that is stopped meanwhile
\* ends the obligation.
C37_ReadyTaskCompletes ==
  \A id \in PMIds :
    PMReady(id) ~> (pm_completed[id] # "none" \/ ~pm_processor)

\* C38: a task cancel_task has returned True for stays recorded as
\* cancelled, and its callback is never invoked.
C38_CancelledStaysCancelled ==
  \A id \in pm_cancelled :
    /\ pm_completed[id] = "cancelled"
    /\ id \notin pm_callbacks

(***************************************************************************)
(* Properties of the request counters (SpecRQ).                            *)
(***************************************************************************)
\* No generate_response call of the manager is in progress.
RQQuiescent(manager) == \A c \in RQCalls : rq_calls[c].manager # manager

\* C40: whenever no generate call of a manager is in progress, its counters
\* satisfy total_requests = successful_requests + failed_requests, whatever
\* calls ran before and however they interleaved.
C40_CountersBalance ==
  \A manager \in RQManagers :
    RQQuiescent(manager) =>
      rq_metrics[manager].total_requests
        = rq_metrics[manager].successful_requests + rq_metrics[manager].failed_requests

\* The EnhancedModelManager is at rest after calls that succeeded and calls
\* that failed, one of which fell back on its last request (two entries for
\* one call).
C40_Witness ==
  /\ RQQuiescent("emm")
  /\ rq_metrics["emm"].total_requests = RQMaxRequests + 1
  /\ rq_metrics["emm"].failed_requests >= 2
  /\ rq_metrics["emm"].successful_requests >= 1

====
